---- MODULE Spec2Model ----
(***************************************************************************)
(* A model of the filesystem-backed mod registry                           *)
(* (zero_infra_mod_registry): the package index file, the package store,   *)
(* the declaration files of the registry directory, the redirect table,   *)
(* and the operations of FilesystemPackageRegistry over them.              *)
(*                                                                         *)
(* Strings that the code splits on "/" are modelled as the sequence of     *)
(* their segments: "https://github.com/a/x" is                             *)
(* <<"https:", "", "github.com", "a", "x">> and the index entry "a/x" is   *)
(* <<"a", "x">>.  A redirect line is the sequence of its parts between     *)
(* " -> " separators.  The index file is modelled by the set of its lines  *)
(* (the code reads it only through set() and membership).                  *)
(* A process is single-threaded: every operation is one atomic action,     *)
(* except under ConcurrentSpec, where two processes share the package db.  *)
(***************************************************************************)
EXTENDS Integers, Sequences, FiniteSets, TLC

VARIABLES
    index,            \* package_db/mod_list_index.txt: the set of its entries
    packages,         \* package_db/packages/<org>/<name>.json: entry -> Mod
    orgDirs,          \* package_db/packages/<org>/ directories
    topDecl,          \* lines of the regular files directly in registry/
    repoDecl,         \* registry/<org>/<name>.txt files: entry -> line
    registryOrgDirs,  \* registry/<org>/ directories
    redirectSrc,      \* lines of the files in registry/redirects/
    redirectsFile,    \* package_db/redirects.txt: its lines
    redirect_manager, \* self.redirect_manager.redirects: source -> dest
    last,             \* the last operation: its arguments, calls and result
    steps,            \* how many actions the run has taken
    call              \* a call of a function of the retriever or of the
                      \* redirect manager on its own: input and result

vars == <<index, packages, orgDirs, topDecl, repoDecl, registryOrgDirs,
          redirectSrc, redirectsFile, redirect_manager, last, steps, call>>

registryVars == <<index, packages, orgDirs, topDecl, repoDecl, registryOrgDirs,
                  redirectSrc, redirectsFile, redirect_manager, last, steps>>

storeVars == <<packages, orgDirs, repoDecl, registryOrgDirs>>

-----------------------------------------------------------------------------
(* Bounds and the finite universe of inputs.                               *)

\* Release tags of the multi-release repository: tag i stands for "v1.<i>.0".
MaxTag == 2

\* Actions per run (edits of the registry directory and operations).
MaxOps == 3

RepoAX == [org |-> "a", name |-> "x"]
RepoAY == [org |-> "a", name |-> "y"]
RepoBZ == [org |-> "b", name |-> "z"]

Repos == {RepoAX, RepoAY, RepoBZ}

\* The tags a repository may carry upstream.
UpstreamTags(repo) ==
    IF repo = RepoAX THEN 1..MaxTag ELSE {1}

-----------------------------------------------------------------------------
(* models.py: Repo.                                                        *)

\* str(repo) / f"{repo.org}/{repo.name}": the index entry of a repository.
Entry(repo) == <<repo.org, repo.name>>

\* Repo.github_url(): "https://github.com/<org>/<name>".
github_url(repo) == <<"https:", "", "github.com", repo.org, repo.name>>


\* Repo(entry[0], entry[1]) of an entry split on "/".
EntryToRepo(e) == [org |-> e[1], name |-> e[2]]

-----------------------------------------------------------------------------
(* Sequence helpers.                                                       *)

\* s[-k:] of Python: the last k elements (all of s when it is shorter).
LastK(s, k) ==
    IF Len(s) <= k THEN s ELSE SubSeq(s, Len(s) - k + 1, Len(s))

\* s.rstrip("/") on the segment sequence: drop the trailing empty segments.
RECURSIVE RStripSep(_)
RStripSep(s) ==
    IF Len(s) > 0 /\ s[Len(s)] = "" THEN RStripSep(SubSeq(s, 1, Len(s) - 1))
    ELSE s

\* All sequences without repetition over a set, of length 1..n.
RECURSIVE ListsOver(_, _)
ListsOver(S, n) ==
    IF n = 0 \/ S = {} THEN {}
    ELSE {<<x>> : x \in S}
         \cup UNION {{<<x>> \o t : t \in ListsOver(S \ {x}, n - 1)} : x \in S}

\* The orderings of a set (list(set(...)) has an arbitrary order).
Orderings(S) ==
    IF S = {} THEN {<<>>}
    ELSE {l \in ListsOver(S, Cardinality(S)) : Len(l) = Cardinality(S)}

\* The order list(set(...)) or a file gives when the order cannot be observed.
SomeOrder(S) == CHOOSE l \in Orderings(S) : TRUE

SeqToSet(s) == {s[i] : i \in 1..Len(s)}

-----------------------------------------------------------------------------
(* utils/path_utils.py                                                     *)

\* repo_to_index_entry: strip trailing separators, keep the last two segments.
repo_to_index_entry(line) == LastK(RStripSep(line), 2)

-----------------------------------------------------------------------------
(* retriever/github_mod_metadata_retriever.py                              *)
(* A Release is [tag, release_date, manifest]; hash and pak_file_name are  *)
(* functions of (repo, tag) and are left out.  A Manifest is               *)
(* [name, repo_url, dependencies]; a Dependency is [repo_url, version],    *)
(* version a sequence of clauses [op, minor]: <<[">=", 2], ["<", 3]>>      *)
(* stands for the range ">=1.2.0,<1.3.0".                                  *)

NoManifest == [name |-> "", repo_url |-> <<>>, dependencies |-> <<>>]

\* Python's None where a Mod is expected (no Mod has an empty release list).
None == [latest_manifest |-> NoManifest, releases |-> <<>>]

\* pak_asset.updated_at of the release tagged "v1.<tag>.0".
ReleaseDate(tag) == tag

\* The URL that a/y had before it moved.
OldUrlAY == <<"https:", "", "github.com", "old", "y">>

\* The dependencies that the mod.json of (repo, tag) declares: from its
\* second release on a/x needs a/y, named by the old URL of a/y; b/z
\* needs the second release of a/x.
Deps(repo, tag) ==
    IF repo = RepoAX /\ tag >= 2
    THEN <<[repo_url |-> OldUrlAY,
            version  |-> <<[op |-> ">=", minor |-> tag - 1]>>]>>
    ELSE IF repo = RepoBZ
    THEN <<[repo_url |-> github_url(RepoAX),
            version  |-> <<[op |-> ">=", minor |-> 2], [op |-> "<", minor |-> 3]>>]>>
    ELSE <<>>

\* process_release: the validated release, repo_url stamped from the repo.
process_release(repo, tag) ==
    [tag          |-> tag,
     release_date |-> ReleaseDate(tag),
     manifest     |-> [name         |-> repo.name,
                       repo_url     |-> github_url(repo),
                       dependencies |-> Deps(repo, tag)]]

\* list.sort(key=release_date, reverse=True): stable, newest first.
InsertDesc(sorted, x) ==
    LET k == Cardinality({i \in 1..Len(sorted) :
                             sorted[i].release_date >= x.release_date})
    IN  SubSeq(sorted, 1, k) \o <<x>> \o SubSeq(sorted, k + 1, Len(sorted))

RECURSIVE SortByDateDesc(_)
SortByDateDesc(s) ==
    IF s = <<>> THEN <<>>
    ELSE InsertDesc(SortByDateDesc(SubSeq(s, 1, Len(s) - 1)), s[Len(s)])

\* The tags of a set in the order upstream lists them (oldest first).
RECURSIVE TagList(_)
TagList(S) ==
    IF S = {} THEN <<>>
    ELSE LET m == CHOOSE t \in S : \A u \in S : t <= u
         IN  <<m>> \o TagList(S \ {m})

\* fetch_all_releases: the releases that pass process_release, sorted.
\* valid is the set of upstream tags whose release passes validation.
fetch_all_releases(repo, valid) ==
    LET tl == TagList(valid)
    IN  SortByDateDesc([i \in 1..Len(tl) |-> process_release(repo, tl[i])])

\* fetch_repo_metadata: None when no release is valid (or the lookup failed).
fetch_repo_metadata(repo, valid) ==
    LET releases == fetch_all_releases(repo, valid)
    IN  IF Len(releases) = 0 THEN None
        ELSE [latest_manifest |-> releases[1].manifest, releases |-> releases]

\* Faulty variant: a release is returned whatever the lookup gave.
fetch_release_metadata_Always(mod, release_tag, ok) ==
    LET p == LastK(mod.latest_manifest.repo_url, 2)
    IN  <<process_release([org |-> p[1], name |-> p[2]], release_tag)>>

\* fetch_release_metadata: the repo is parsed from the mod's repo_url;
\* ok = FALSE when the release is unknown upstream or fails validation.
fetch_release_metadata(mod, release_tag, ok) ==
    LET p == LastK(mod.latest_manifest.repo_url, 2)
    IN  IF ok THEN <<process_release([org |-> p[1], name |-> p[2]], release_tag)>>
        ELSE <<>>

\* Faulty variant: the new release is appended and the list is not sorted again.
update_mod_with_release_NoSort(mod, release) ==
    LET mod_releases == Append(mod.releases, release)
    IN  [latest_manifest |-> mod_releases[1].manifest,
         releases        |-> mod_releases]

update_mod_with_release(mod, release) ==
    LET mod_releases == SortByDateDesc(Append(mod.releases, release))
    IN  [latest_manifest |-> mod_releases[1].manifest,
         releases        |-> mod_releases]

-----------------------------------------------------------------------------
(* utils/redirect_manager.py                                               *)

\* A line of text is the sequence of its tokens: a blank is " ", the arrow is
\* "->", and the other tokens are the segments of a url (joined by "/").
Separator == <<" ", "->", " ">>

\* line[m-1:n]: the tokens m..n of a line, none when m > n.
Slice(line, m, n) == IF m > n THEN <<>> ELSE SubSeq(line, m, n)

\* line.lstrip() and line.rstrip(): the blanks at either end are dropped.
RECURSIVE lstrip(_)
lstrip(line) ==
    IF line # <<>> /\ Head(line) = " " THEN lstrip(Tail(line)) ELSE line

RECURSIVE rstrip(_)
rstrip(line) ==
    IF line # <<>> /\ line[Len(line)] = " "
    THEN rstrip(Slice(line, 1, Len(line) - 1))
    ELSE line

strip(line) == rstrip(lstrip(line))

\* line.find(sep), counted from 1: the first place where sep occurs, 0 if none.
find(line, sep) ==
    LET at == {i \in 1..(Len(line) - Len(sep) + 1) :
                  SubSeq(line, i, i + Len(sep) - 1) = sep}
    IN  IF at = {} THEN 0 ELSE CHOOSE i \in at : \A j \in at : i <= j

\* line.split(sep): the parts between the occurrences of sep, left to right.
RECURSIVE split(_, _)
split(line, sep) ==
    LET i == find(line, sep)
    IN  IF i = 0 THEN <<line>>
        ELSE <<Slice(line, 1, i - 1)>>
             \o split(Slice(line, i + Len(sep), Len(line)), sep)

\* Faulty variant: the lines are not stripped before they are split.
parse_redirects_NoStrip(redirect_lines) ==
    LET good == {i \in 1..Len(redirect_lines) :
                    /\ redirect_lines[i] # <<>>
                    /\ find(redirect_lines[i], Separator) # 0}
        parsed(i) == split(redirect_lines[i], Separator)
        srcs == {parsed(i)[1] : i \in good}
        at(s) == CHOOSE i \in good :
                    /\ parsed(i)[1] = s
                    /\ \A j \in good : parsed(j)[1] = s => j <= i
    IN  [s \in srcs |-> parsed(at(s))[2]]

\* parse_redirects: each line is stripped; a line that is not empty and holds
\* " -> " is split on it; the dict maps part 0 to part 1, later lines win.
parse_redirects(redirect_lines) ==
    LET line(i) == strip(redirect_lines[i])
        good == {i \in 1..Len(redirect_lines) :
                    /\ line(i) # <<>>
                    /\ find(line(i), Separator) # 0}
        parsed(i) == split(line(i), Separator)
        srcs == {parsed(i)[1] : i \in good}
        at(s) == CHOOSE i \in good :
                    /\ parsed(i)[1] = s
                    /\ \A j \in good : parsed(j)[1] = s => j <= i
    IN  [s \in srcs |-> parsed(at(s))[2]]

\* A file that does not exist, and a file with its lines (read().splitlines()).
NoFile == [exists |-> FALSE, lines |-> <<>>]

FileOf(lines) == [exists |-> TRUE, lines |-> lines]

\* from_file: the lines of the file are parsed; FileNotFoundError gives the
\* empty table.
from_file(file) ==
    IF file.exists THEN parse_redirects(file.lines) ELSE <<>>

\* Faulty variant: one redirect is followed, not the chain.
resolve_OneHop(redirects, repo) ==
    IF repo \in DOMAIN redirects THEN redirects[repo] ELSE repo

\* resolve: follow the redirects from repo until a url that is no source.
\* (Defined on tables without a cycle on the chain of repo.)
RECURSIVE resolve(_, _)
resolve(redirects, repo) ==
    IF repo \in DOMAIN redirects THEN resolve(redirects, redirects[repo])
    ELSE repo

-----------------------------------------------------------------------------
(* registry/filesystem_package_registry.py: the store operations as        *)
(* functions of the registry they act on.  A registry st is the record     *)
(* [packages, orgDirs, repoDecl, registryOrgDirs, index, redirect_manager];*)
(* the store operations change only its first four fields.                 *)

\* "pat in content" on segment sequences: pat occurs contiguously in line.
Contains(line, pat) ==
    \E i \in 0..(Len(line) - Len(pat)) :
        SubSeq(line, i + 1, i + Len(pat)) = pat

\* PackageManagerJsonEncoder.default on a datetime: its ISO text.
isoformat(release_date) == [iso |-> release_date]

\* json_encoder.encode(mod.asdict()): the record file of a Mod, every
\* release_date as its ISO text.
encode(mod) ==
    [mod EXCEPT !.releases =
        [i \in 1..Len(mod.releases) |->
            [mod.releases[i] EXCEPT !.release_date = isoformat(@)]]]

\* Mod.from_dict(json.loads(text)): the Mod of a record file, every ISO
\* text parsed to its datetime.
from_dict(mod_dict) ==
    [mod_dict EXCEPT !.releases =
        [i \in 1..Len(mod_dict.releases) |->
            [mod_dict.releases[i] EXCEPT !.release_date = @.iso]]]

\* Faulty variant: org and repoName are the last two segments as they are.
UrlOrgName_NoShift(url) == <<url[Len(url) - 1], url[Len(url)]>>

\* org and repoName of a repo_url, with the trailing-slash shift.
UrlOrgName(url) ==
    LET n == Len(url)
    IN  IF url[n] = "" THEN <<url[n - 2], url[n - 1]>>
        ELSE <<url[n - 1], url[n]>>

\* The os.walk search of add_package: some .txt file under registry/
\* (top-level files, <org>/<name>.txt files, redirects/) names the repo.
DeclarationFound(st, top, redir, repo_url, index_entry) ==
    LET contents == top \cup {st.repoDecl[e] : e \in DOMAIN st.repoDecl}
                        \cup {redir[i] : i \in 1..Len(redir)}
    IN  \E c \in contents : Contains(c, repo_url) \/ Contains(c, index_entry)

\* One pass of add_package's "for mod in filtered_mods" loop.
WriteMod(st, top, redir, mod) ==
    LET repo_url == mod.latest_manifest.repo_url
        key      == UrlOrgName(repo_url)
        org      == key[1]
        found    == DeclarationFound(st, top, redir, repo_url, key)
    IN  [st EXCEPT
           !.packages        = [e \in DOMAIN st.packages \cup {key} |->
                                   IF e = key THEN encode(mod) ELSE st.packages[e]],
           !.orgDirs         = st.orgDirs \cup {org},
           !.registryOrgDirs = st.registryOrgDirs \cup {org},
           !.repoDecl        = IF found THEN st.repoDecl
                               ELSE [e \in DOMAIN st.repoDecl \cup {key} |->
                                        IF e = key THEN repo_url
                                        ELSE st.repoDecl[e]]]

\* The first k passes of the loop over mods.
RECURSIVE WriteMods(_, _, _, _, _)
WriteMods(st, top, redir, mods, k) ==
    IF k = 0 THEN st
    ELSE WriteMod(WriteMods(st, top, redir, mods, k - 1), top, redir, mods[k])

-----------------------------------------------------------------------------
(* validate_package_db.  A tag i stands for the string "v1.<i>.0"; strings  *)
(* that the code tests for a leading "v" are records [v, ...], v saying     *)
(* whether the string starts with "v".                                     *)

\* release.tag as the string it is.
TagName(tag) == [v |-> TRUE, version |-> <<1, tag, 0>>]

\* dep.version as the string it is: the clauses joined by ",".
RangeText(version) ==
    [v |-> FALSE,
     clauses |-> [i \in 1..Len(version) |->
                     [op |-> version[i].op, version |-> <<1, version[i].minor, 0>>]]]

\* Faulty variant: a leading "v" is kept.
StripV_Keeps(s) == s

\* "if s.startswith('v'): s = s[1:]"
StripV(s) == [s EXCEPT !.v = FALSE]

\* s with a "v" in front, for an s that does not start with "v".
WithV(s) == [s EXCEPT !.v = TRUE]

\* Version precedence on <<major, minor, patch>>.
VersionLess(a, b) ==
    \/ a[1] < b[1]
    \/ a[1] = b[1] /\ a[2] < b[2]
    \/ a[1] = b[1] /\ a[2] = b[2] /\ a[3] < b[3]

\* Version(release_tag) in SimpleSpec(dep_version): every clause holds.
\* (Both constructors raise ValueError on a string that starts with "v".)
VersionInSpec(release_tag, dep_version) ==
    /\ ~release_tag.v
    /\ ~dep_version.v
    /\ \A i \in 1..Len(dep_version.clauses) :
          LET c == dep_version.clauses[i]
          IN  IF c.op = ">=" THEN ~VersionLess(release_tag.version, c.version)
              ELSE VersionLess(release_tag.version, c.version)

\* The version half of the test of _find_dependency, on the two strings.
TagMatchesRange(release_tag, dep_version) ==
    VersionInSpec(StripV(release_tag), StripV(dep_version))

\* The test of _find_dependency on one release.
DependencyMatches(redirects, release, dep) ==
    /\ resolve(redirects, release.manifest.repo_url) = resolve(redirects, dep.repo_url)
    /\ TagMatchesRange(TagName(release.tag), RangeText(dep.version))

\* The positions <<i, j>> of the releases of a list of mods.
ReleasePositions(mods) ==
    UNION {{<<i, j>> : j \in 1..Len(mods[i].releases)} : i \in 1..Len(mods)}

\* Faulty variant: the urls are compared as they are, without redirects.
_find_dependency_NoRedirects(redirects, mods, dep) ==
    LET hits == {x \in ReleasePositions(mods) :
                    /\ mods[x[1]].releases[x[2]].manifest.repo_url = dep.repo_url
                    /\ VersionInSpec(StripV(TagName(mods[x[1]].releases[x[2]].tag)),
                                     StripV(RangeText(dep.version)))}
    IN  IF hits = {} THEN <<>>
        ELSE LET h == CHOOSE x \in hits : \A y \in hits :
                          x[1] < y[1] \/ (x[1] = y[1] /\ x[2] <= y[2])
             IN  <<mods[h[1]].releases[h[2]]>>

\* _find_dependency: the first release, in list order, that matches dep
\* (<<>> for None).
_find_dependency(redirects, mods, dep) ==
    LET hits == {x \in ReleasePositions(mods) :
                    DependencyMatches(redirects, mods[x[1]].releases[x[2]], dep)}
    IN  IF hits = {} THEN <<>>
        ELSE LET h == CHOOSE x \in hits : \A y \in hits :
                          x[1] < y[1] \/ (x[1] = y[1] /\ x[2] <= y[2])
             IN  <<mods[h[1]].releases[h[2]]>>

\* What a call of validate_package_db reports when none was made.
NoReport == [outcome |-> "none", missing |-> {}]

\* The (release, dependency) pairs of mods that _find_dependency does not
\* find, each as the log names it: manifest name, tag, dep url and range.
MissingDeps(redirects, mods) ==
    UNION {LET release == mods[x[1]].releases[x[2]]
               deps    == release.manifest.dependencies
           IN  {[name |-> release.manifest.name, tag |-> release.tag,
                 dep |-> deps[k]] :
                   k \in {n \in 1..Len(deps) :
                             _find_dependency(redirects, mods, deps[n]) = <<>>}} :
           x \in ReleasePositions(mods)}

\* Faulty variant: the validation drops from the index the packages whose
\* record it cannot load.
validate_package_db_PrunesIndex(st, additional_mods) ==
    LET kept == {e \in st.index : e \in DOMAIN st.packages}
        packages_ == SomeOrder(kept)
        mods == additional_mods
                \o [i \in 1..Len(packages_) |-> from_dict(st.packages[packages_[i]])]
        missing_deps == MissingDeps(st.redirect_manager, mods)
    IN  [st |-> [st EXCEPT !.index = kept],
         outcome |-> IF missing_deps # {} THEN "invalid" ELSE "valid",
         missing |-> missing_deps]

\* validate_package_db(additional_mods) on the registry st (its index, its
\* records and its redirect table).  The result is the registry after the
\* call and the report: "aborted" when an indexed package has no record
\* (the method returns before checking anything), else "invalid" with the
\* missing dependencies or "valid".
validate_package_db(st, additional_mods) ==
    LET packages_ == SomeOrder(st.index)
    IN  IF \E e \in st.index : e \notin DOMAIN st.packages
        THEN [st |-> st, outcome |-> "aborted", missing |-> {}]
        ELSE LET mods == additional_mods
                         \o [i \in 1..Len(packages_) |-> from_dict(st.packages[packages_[i]])]
                 missing_deps == MissingDeps(st.redirect_manager, mods)
             IN  [st |-> st,
                  outcome |-> IF missing_deps # {} THEN "invalid" ELSE "valid",
                  missing |-> missing_deps]

\* Faulty variant: add_package without its "if dry_run: return" before the writes.
add_package_IgnoresDryRun(st, top, redir, repos, dry_run, valid, exc) ==
    LET mods == [i \in 1..Len(repos) |-> fetch_repo_metadata(repos[i], valid[i])]
        filtered_mods == SelectSeq(mods, LAMBDA m : m # None)
        calls == {"fetch_repo_metadata", "validate_package_db"}
    IN  IF Len(filtered_mods) # Len(repos)
        THEN [st |-> st, ret |-> "int", n |-> 0,
              calls |-> {"fetch_repo_metadata"}, report |-> NoReport]
        ELSE IF exc = 1
        THEN [st |-> st, ret |-> "Exception", n |-> 0, calls |-> calls,
              report |-> NoReport]
        ELSE
        LET v == validate_package_db(st, filtered_mods)
            report == [outcome |-> v.outcome, missing |-> v.missing]
        IN  IF exc > 0
            THEN [st |-> WriteMods(v.st, top, redir, filtered_mods, exc - 1),
                  ret |-> "Exception", n |-> 0, calls |-> calls,
                  report |-> report]
            ELSE [st |-> WriteMods(v.st, top, redir, filtered_mods, Len(filtered_mods)),
                  ret |-> "int", n |-> Len(filtered_mods), calls |-> calls,
                  report |-> report]

\* Faulty variant: add_package gives up, as on a failed fetch, when the
\* validation reports a missing dependency.
add_package_BlockedByFindings(st, top, redir, repos, dry_run, valid, exc) ==
    LET mods == [i \in 1..Len(repos) |-> fetch_repo_metadata(repos[i], valid[i])]
        filtered_mods == SelectSeq(mods, LAMBDA m : m # None)
        calls == {"fetch_repo_metadata", "validate_package_db"}
    IN  IF Len(filtered_mods) # Len(repos)
        THEN [st |-> st, ret |-> "int", n |-> 0,
              calls |-> {"fetch_repo_metadata"}, report |-> NoReport]
        ELSE IF exc = 1
        THEN [st |-> st, ret |-> "Exception", n |-> 0, calls |-> calls,
              report |-> NoReport]
        ELSE
        LET v == validate_package_db(st, filtered_mods)
            report == [outcome |-> v.outcome, missing |-> v.missing]
        IN  IF v.missing # {}
            THEN [st |-> v.st, ret |-> "int", n |-> 0, calls |-> calls,
                  report |-> report]
            ELSE IF dry_run
            THEN [st |-> v.st, ret |-> "int", n |-> Len(filtered_mods),
                  calls |-> calls, report |-> report]
            ELSE IF exc > 0
            THEN [st |-> WriteMods(v.st, top, redir, filtered_mods, exc - 1),
                  ret |-> "Exception", n |-> 0, calls |-> calls,
                  report |-> report]
            ELSE [st |-> WriteMods(v.st, top, redir, filtered_mods, Len(filtered_mods)),
                  ret |-> "int", n |-> Len(filtered_mods), calls |-> calls,
                  report |-> report]

\* Faulty variant: the repositories whose metadata was fetched are written
\* when the metadata of another repository of the batch is absent.
add_package_WritesFetched(st, top, redir, repos, dry_run, valid, exc) ==
    LET mods == [i \in 1..Len(repos) |-> fetch_repo_metadata(repos[i], valid[i])]
        filtered_mods == SelectSeq(mods, LAMBDA m : m # None)
        calls == {"fetch_repo_metadata", "validate_package_db"}
    IN  IF exc = 1
        THEN [st |-> st, ret |-> "Exception", n |-> 0, calls |-> calls,
              report |-> NoReport]
        ELSE
        LET v == validate_package_db(st, filtered_mods)
            report == [outcome |-> v.outcome, missing |-> v.missing]
        IN  IF dry_run
            THEN [st |-> v.st, ret |-> "int", n |-> Len(filtered_mods),
                  calls |-> calls, report |-> report]
            ELSE IF exc > 0
            THEN [st |-> WriteMods(v.st, top, redir, filtered_mods, exc - 1),
                  ret |-> "Exception", n |-> 0, calls |-> calls,
                  report |-> report]
            ELSE [st |-> WriteMods(v.st, top, redir, filtered_mods, Len(filtered_mods)),
                  ret |-> "int",
                  n |-> IF Len(filtered_mods) # Len(repos) THEN 0
                        ELSE Len(filtered_mods),
                  calls |-> calls, report |-> report]

\* add_package(repos, dry_run).  valid[i] is the set of upstream tags of
\* repos[i] that pass validation ({}: fetch_repo_metadata returns None).
\* exc = 0: nothing raises; exc = 1: validate_package_db raises; exc = k > 1:
\* the write of the k-th mod raises, after k - 1 mods were written (in a
\* trial run nothing is written and nothing raises after the validation).
\* The result is [st, ret, n, calls, report]: the registry after the call,
\* how it returned ("int" with the count n, or "Exception"), what it called
\* and what validate_package_db reported.
add_package(st, top, redir, repos, dry_run, valid, exc) ==
    LET mods == [i \in 1..Len(repos) |-> fetch_repo_metadata(repos[i], valid[i])]
        filtered_mods == SelectSeq(mods, LAMBDA m : m # None)
        calls == {"fetch_repo_metadata", "validate_package_db"}
    IN  IF Len(filtered_mods) # Len(repos)
        THEN [st |-> st, ret |-> "int", n |-> 0,
              calls |-> {"fetch_repo_metadata"}, report |-> NoReport]
        ELSE IF exc = 1
        THEN [st |-> st, ret |-> "Exception", n |-> 0, calls |-> calls,
              report |-> NoReport]
        ELSE
        LET v == validate_package_db(st, filtered_mods)
            report == [outcome |-> v.outcome, missing |-> v.missing]
        IN  IF dry_run
            THEN [st |-> v.st, ret |-> "int", n |-> Len(filtered_mods),
                  calls |-> calls, report |-> report]
            ELSE IF exc > 0
            THEN [st |-> WriteMods(v.st, top, redir, filtered_mods, exc - 1),
                  ret |-> "Exception", n |-> 0, calls |-> calls,
                  report |-> report]
            ELSE [st |-> WriteMods(v.st, top, redir, filtered_mods, Len(filtered_mods)),
                  ret |-> "int", n |-> Len(filtered_mods), calls |-> calls,
                  report |-> report]

\* Faulty variant: the organization directory is left behind when empty.
RemoveMod_KeepsOrgDir(st, repo) ==
    LET key == Entry(repo)
    IN  [st |-> [st EXCEPT !.packages =
                    [e \in DOMAIN st.packages \ {key} |-> st.packages[e]]],
         removed |-> IF key \in DOMAIN st.packages THEN 1 ELSE 0]

\* One pass of remove_mods' "for repo in repo_list" loop; the result is
\* the store and 1 when a record was deleted, 0 otherwise.
RemoveMod(st, repo) ==
    LET key      == Entry(repo)
        exists   == key \in DOMAIN st.packages
        pk       == [e \in DOMAIN st.packages \ {key} |-> st.packages[e]]
        empty    == \A e \in DOMAIN pk : e[1] # repo.org
    IN  [st |-> [st EXCEPT !.packages = pk,
                           !.orgDirs  = IF repo.org \in st.orgDirs /\ empty
                                        THEN st.orgDirs \ {repo.org}
                                        ELSE st.orgDirs],
         removed |-> IF exists THEN 1 ELSE 0]

\* The first k passes of the loop: [st, removed_count].
RECURSIVE RemoveLoop(_, _, _)
RemoveLoop(st, repo_list, k) ==
    IF k = 0 THEN [st |-> st, removed |-> 0]
    ELSE LET before == RemoveLoop(st, repo_list, k - 1)
             step   == RemoveMod(before.st, repo_list[k])
         IN  [st |-> step.st, removed |-> before.removed + step.removed]

\* remove_mods(repo_list, dry_run).  exc as in add_package: exc = 1 is
\* validate_package_db([]) raising, exc = k > 1 the k-th deletion raising.
\* The validation runs before anything is deleted.
remove_mods(st, repo_list, dry_run, exc) ==
    IF exc = 1
    THEN [st |-> st, ret |-> "Exception", n |-> 0,
          calls |-> {"validate_package_db"}, report |-> NoReport]
    ELSE
    LET v == validate_package_db(st, <<>>)
        report == [outcome |-> v.outcome, missing |-> v.missing]
    IN  IF dry_run
        THEN [st |-> v.st, ret |-> "int",
              n |-> Cardinality({i \in 1..Len(repo_list) :
                                    Entry(repo_list[i]) \in DOMAIN v.st.packages}),
              calls |-> {"validate_package_db"}, report |-> report]
        ELSE IF exc > 0
        THEN [st |-> RemoveLoop(v.st, repo_list, exc - 1).st,
              ret |-> "Exception", n |-> 0, calls |-> {"validate_package_db"},
              report |-> report]
        ELSE LET done == RemoveLoop(v.st, repo_list, Len(repo_list))
             IN  [st |-> done.st, ret |-> "int", n |-> done.removed,
                  calls |-> {"validate_package_db"}, report |-> report]

\* load_mod: <<>> when the record file does not exist.
load_mod(st, repo) ==
    IF Entry(repo) \in DOMAIN st.packages
    THEN <<from_dict(st.packages[Entry(repo)])>>
    ELSE <<>>

\* Faulty variant: the index check always succeeds.
_is_package_in_index_Always(idx, repo) == TRUE

\* _is_package_in_index
_is_package_in_index(idx, repo) == Entry(repo) \in idx

\* Faulty variant: the duplicate-tag check never fires.
ReleaseTagExists_Never(mod, release_tag) == FALSE

\* "release_tag in tags" of add_package_release.
ReleaseTagExists(mod, release_tag) ==
    release_tag \in {mod.releases[i].tag : i \in 1..Len(mod.releases)}

\* Faulty variant: a repository without a record is left alone.
add_package_release_NoInit(idx, st, top, redir, repo, release_tag, dry_run, valid, ok, exc) ==
    IF ~_is_package_in_index(idx, repo)
    THEN [st |-> st, ret |-> "ValueError", n |-> 0, calls |-> {}, sub |-> {},
          report |-> NoReport]
    ELSE
    LET loaded == load_mod(st, repo)
    IN  IF loaded = <<>>
        THEN [st |-> st, ret |-> "int", n |-> 0, calls |-> {"load_mod"},
              sub |-> {}, report |-> NoReport]
        ELSE
        LET mod == loaded[1]
        IN  IF ReleaseTagExists(mod, release_tag)
            THEN [st |-> st, ret |-> "int", n |-> 0,
                  calls |-> {"load_mod"}, sub |-> {}, report |-> NoReport]
            ELSE
            LET release == fetch_release_metadata(mod, release_tag, ok)
            IN  IF release = <<>>
                THEN [st |-> st, ret |-> "int", n |-> 0,
                      calls |-> {"load_mod", "fetch_release_metadata"},
                      sub |-> {}, report |-> NoReport]
                ELSE
                LET updated_mod == update_mod_with_release(mod, release[1])
                    key  == LastK(github_url(repo), 2)
                    all  == {"load_mod", "fetch_release_metadata",
                             "update_mod_with_release", "validate_package_db"}
                IN  IF exc > 0
                    THEN [st |-> st, ret |-> "Exception", n |-> 0,
                          calls |-> all, sub |-> {}, report |-> NoReport]
                    ELSE
                    LET v == validate_package_db(st, <<updated_mod>>)
                        report == [outcome |-> v.outcome, missing |-> v.missing]
                    IN  IF dry_run
                        THEN [st |-> v.st, ret |-> "int", n |-> 1,
                              calls |-> all, sub |-> {}, report |-> report]
                        ELSE [st |-> [v.st EXCEPT !.packages =
                                         [e \in DOMAIN v.st.packages \cup {key} |->
                                             IF e = key THEN encode(updated_mod)
                                             ELSE v.st.packages[e]]],
                              ret |-> "int", n |-> 1, calls |-> all, sub |-> {},
                              report |-> report]

\* add_package_release(repo, release_tag, dry_run).  valid is the retriever's
\* answer if the call falls back to add_package; ok says whether
\* fetch_release_metadata finds a valid release; exc = 1 when
\* validate_package_db or the write raises.
\* The result is [st, ret, n, calls, sub]; sub holds the registry methods
\* called, each with the dry_run flag it was given.
add_package_release(idx, st, top, redir, repo, release_tag, dry_run, valid, ok, exc) ==
    IF ~_is_package_in_index(idx, repo)
    THEN [st |-> st, ret |-> "ValueError", n |-> 0, calls |-> {}, sub |-> {},
          report |-> NoReport]
    ELSE
    LET loaded == load_mod(st, repo)
    IN  IF loaded = <<>>
        THEN LET r == add_package(st, top, redir, <<repo>>, dry_run,
                                  <<valid>>, exc)
             IN  [st |-> r.st, ret |-> r.ret, n |-> r.n,
                  calls |-> {"load_mod"} \cup r.calls,
                  sub |-> {[fn |-> "add_package", dry_run |-> dry_run]},
                  report |-> r.report]
        ELSE
        LET mod == loaded[1]
        IN  IF ReleaseTagExists(mod, release_tag)
            THEN [st |-> st, ret |-> "int", n |-> 0,
                  calls |-> {"load_mod"}, sub |-> {}, report |-> NoReport]
            ELSE
            LET release == fetch_release_metadata(mod, release_tag, ok)
            IN  IF release = <<>>
                THEN [st |-> st, ret |-> "int", n |-> 0,
                      calls |-> {"load_mod", "fetch_release_metadata"},
                      sub |-> {}, report |-> NoReport]
                ELSE
                LET updated_mod == update_mod_with_release(mod, release[1])
                    key  == LastK(github_url(repo), 2)
                    all  == {"load_mod", "fetch_release_metadata",
                             "update_mod_with_release", "validate_package_db"}
                IN  IF exc > 0
                    THEN [st |-> st, ret |-> "Exception", n |-> 0,
                          calls |-> all, sub |-> {}, report |-> NoReport]
                    ELSE
                    LET v == validate_package_db(st, <<updated_mod>>)
                        report == [outcome |-> v.outcome, missing |-> v.missing]
                    IN  IF dry_run
                        THEN [st |-> v.st, ret |-> "int", n |-> 1,
                              calls |-> all, sub |-> {}, report |-> report]
                        ELSE [st |-> [v.st EXCEPT !.packages =
                                         [e \in DOMAIN v.st.packages \cup {key} |->
                                             IF e = key THEN encode(updated_mod)
                                             ELSE v.st.packages[e]]],
                              ret |-> "int", n |-> 1, calls |-> all, sub |-> {},
                              report |-> report]

\* _generate_package_list: the index entry of every declaration line.
_generate_package_list(top) == {repo_to_index_entry(l) : l \in top}

\* Faulty variant: the run never writes mod_list_index.txt.
FinishUpdates_NoIndexWrite(idx, file, manager, redir, updated_index_entries, dry_run, added, removed, sub) ==
    LET raised == {f \in {"add_package"} : added.ret = "Exception"}
                  \cup {f \in {"remove_mods"} : removed.ret = "Exception"}
    IN  [st      |-> removed.st,
         file    |-> IF dry_run THEN file ELSE redir,
         manager |-> IF dry_run THEN manager ELSE parse_redirects(redir),
         idx     |-> idx,
         ret     |-> IF raised # {} THEN "False" ELSE "True",
         calls   |-> added.calls \cup removed.calls,
         sub     |-> sub,
         raised  |-> raised,
         report  |-> added.report,
         removeReport |-> removed.report]

\* Faulty variant: a trial run writes the index and the redirects like a real one.
FinishUpdates_DryRunWrites(idx, file, manager, redir, updated_index_entries, dry_run, added, removed, sub) ==
    LET raised == {f \in {"add_package"} : added.ret = "Exception"}
                  \cup {f \in {"remove_mods"} : removed.ret = "Exception"}
    IN  [st      |-> removed.st,
         file    |-> redir,
         manager |-> parse_redirects(redir),
         idx     |-> IF raised # {} THEN idx ELSE updated_index_entries,
         ret     |-> IF raised # {} THEN "False" ELSE "True",
         calls   |-> added.calls \cup removed.calls,
         sub     |-> sub,
         raised  |-> raised,
         report  |-> added.report,
         removeReport |-> removed.report]

\* Faulty variant: a failed run writes the index all the same.
\* Faulty variant: a failed run puts the redirect file and table back.
FinishUpdates_RollsBack(idx, file, manager, redir, updated_index_entries, dry_run, added, removed, sub) ==
    LET raised == {f \in {"add_package"} : added.ret = "Exception"}
                  \cup {f \in {"remove_mods"} : removed.ret = "Exception"}
        failed == raised # {}
    IN  [st      |-> IF failed
                     THEN [removed.st EXCEPT !.redirect_manager = manager]
                     ELSE removed.st,
         file    |-> IF dry_run \/ failed THEN file ELSE redir,
         manager |-> IF dry_run \/ failed THEN manager ELSE parse_redirects(redir),
         idx     |-> IF failed \/ dry_run THEN idx ELSE updated_index_entries,
         ret     |-> IF failed THEN "False" ELSE "True",
         calls   |-> added.calls \cup removed.calls,
         sub     |-> sub,
         raised  |-> raised,
         report  |-> added.report,
         removeReport |-> removed.report]

FinishUpdates_IndexOnFailure(idx, file, manager, redir, updated_index_entries, dry_run, added, removed, sub) ==
    LET raised == {f \in {"add_package"} : added.ret = "Exception"}
                  \cup {f \in {"remove_mods"} : removed.ret = "Exception"}
    IN  [st      |-> removed.st,
         file    |-> IF dry_run THEN file ELSE redir,
         manager |-> IF dry_run THEN manager ELSE parse_redirects(redir),
         idx     |-> IF dry_run THEN idx ELSE updated_index_entries,
         ret     |-> IF raised # {} THEN "False" ELSE "True",
         calls   |-> added.calls \cup removed.calls,
         sub     |-> sub,
         raised  |-> raised,
         report  |-> added.report,
         removeReport |-> removed.report]

\* The tail of process_registry_updates, given what the add phase (added)
\* and the remove phase (removed) returned.
FinishUpdates(idx, file, manager, redir, updated_index_entries, dry_run, added, removed, sub) ==
    LET raised == {f \in {"add_package"} : added.ret = "Exception"}
                  \cup {f \in {"remove_mods"} : removed.ret = "Exception"}
        failed == raised # {}
    IN  [st      |-> removed.st,
         file    |-> IF dry_run THEN file ELSE redir,
         manager |-> IF dry_run THEN manager ELSE parse_redirects(redir),
         idx     |-> IF failed \/ dry_run THEN idx ELSE updated_index_entries,
         ret     |-> IF failed THEN "False" ELSE "True",
         calls   |-> added.calls \cup removed.calls,
         sub     |-> sub,
         raised  |-> raised,
         report  |-> added.report,
         removeReport |-> removed.report]

\* Faulty variant: the remove phase removes every entry of the previous index.
RemovePhase_RemovesIndexed(idx, file, manager, redir, updated_index_entries, dry_run, added, remove_order, exc_remove, sub) ==
    FinishUpdates(idx, file, manager, redir, updated_index_entries, dry_run,
        added,
        IF idx \ updated_index_entries = {}
        THEN [st |-> added.st, ret |-> "int", n |-> 0, calls |-> {},
              report |-> NoReport]
        ELSE remove_mods(added.st,
                 [i \in 1..Cardinality(idx) |-> EntryToRepo(SomeOrder(idx)[i])],
                 dry_run, exc_remove),
        sub)

\* Faulty variant: the remove phase is skipped when the add phase raised.
RemovePhase_StopsAfterFailedAdd(idx, file, manager, redir, updated_index_entries, dry_run, added, remove_order, exc_remove, sub) ==
    FinishUpdates(idx, file, manager, redir, updated_index_entries, dry_run,
        added,
        IF idx \ updated_index_entries = {} \/ added.ret = "Exception"
        THEN [st |-> added.st, ret |-> "int", n |-> 0, calls |-> {},
              report |-> NoReport]
        ELSE remove_mods(added.st,
                 [i \in 1..Len(remove_order) |-> EntryToRepo(remove_order[i])],
                 dry_run, exc_remove),
        sub)

\* The remove phase of process_registry_updates and what follows it.
RemovePhase(idx, file, manager, redir, updated_index_entries, dry_run, added, remove_order, exc_remove, sub) ==
    FinishUpdates(idx, file, manager, redir, updated_index_entries, dry_run,
        added,
        IF idx \ updated_index_entries = {}
        THEN [st |-> added.st, ret |-> "int", n |-> 0, calls |-> {},
              report |-> NoReport]
        ELSE remove_mods(added.st,
                 [i \in 1..Len(remove_order) |-> EntryToRepo(remove_order[i])],
                 dry_run, exc_remove),
        sub)

\* Faulty variant: every discovered entry counts as new, indexed or not.
process_registry_updates_AddsAll(idx, st, top, redir, file, manager, dry_run, valid, add_order, remove_order, exc_add, exc_remove) ==
    LET updated_index_entries  == _generate_package_list(top)
        all_order == SomeOrder(updated_index_entries)
        registry == IF dry_run THEN st
                    ELSE [st EXCEPT !.redirect_manager = parse_redirects(redir)]
    IN  RemovePhase(idx, file, manager, redir, updated_index_entries, dry_run,
            IF updated_index_entries = {}
            THEN [st |-> registry, ret |-> "int", n |-> 0, calls |-> {},
                  report |-> NoReport]
            ELSE add_package(registry, top, redir,
                     [i \in 1..Len(all_order) |-> EntryToRepo(all_order[i])],
                     dry_run,
                     [i \in 1..Len(all_order) |->
                         IF all_order[i] \in DOMAIN valid THEN valid[all_order[i]]
                         ELSE UpstreamTags(EntryToRepo(all_order[i]))],
                     0),
            remove_order, exc_remove,
            {[fn |-> f, dry_run |-> dry_run] :
                f \in {g \in {"add_package"} : updated_index_entries # {}}
                      \cup {g \in {"remove_mods"} : idx \ updated_index_entries # {}}})

\* Faulty variant: the redirect table is replaced after the phases only.
process_registry_updates_LateRefresh(idx, st, top, redir, file, manager, dry_run, valid, add_order, remove_order, exc_add, exc_remove) ==
    LET updated_index_entries  == _generate_package_list(top)
        new_entries     == updated_index_entries \ idx
        removed_entries == idx \ updated_index_entries
    IN  RemovePhase(idx, file, manager, redir, updated_index_entries, dry_run,
            IF new_entries = {}
            THEN [st |-> st, ret |-> "int", n |-> 0, calls |-> {},
                  report |-> NoReport]
            ELSE add_package(st, top, redir,
                     [i \in 1..Len(add_order) |-> EntryToRepo(add_order[i])],
                     dry_run,
                     [i \in 1..Len(add_order) |-> valid[add_order[i]]],
                     exc_add),
            remove_order, exc_remove,
            {[fn |-> f, dry_run |-> dry_run] :
                f \in {g \in {"add_package"} : new_entries # {}}
                      \cup {g \in {"remove_mods"} : removed_entries # {}}})

\* process_registry_updates(dry_run).  valid[e] is the retriever's answer for
\* entry e; add_order and remove_order are the orders list(set(...)) gives;
\* exc_add and exc_remove say where add_package and remove_mods raise.
\* The redirect table is replaced before the phases run (not in a trial
\* run), so their validations resolve through the new table.
\* The result is [st, idx, file, manager, ret, calls, sub, raised, report,
\* removeReport], the reports those of add_package and of remove_mods.
process_registry_updates(idx, st, top, redir, file, manager, dry_run, valid, add_order, remove_order, exc_add, exc_remove) ==
    LET updated_index_entries  == _generate_package_list(top)
        new_entries     == updated_index_entries \ idx
        removed_entries == idx \ updated_index_entries
        registry == IF dry_run THEN st
                    ELSE [st EXCEPT !.redirect_manager = parse_redirects(redir)]
    IN  RemovePhase(idx, file, manager, redir, updated_index_entries, dry_run,
            IF new_entries = {}
            THEN [st |-> registry, ret |-> "int", n |-> 0, calls |-> {},
                  report |-> NoReport]
            ELSE add_package(registry, top, redir,
                     [i \in 1..Len(add_order) |-> EntryToRepo(add_order[i])],
                     dry_run,
                     [i \in 1..Len(add_order) |-> valid[add_order[i]]],
                     exc_add),
            remove_order, exc_remove,
            {[fn |-> f, dry_run |-> dry_run] :
                f \in {g \in {"add_package"} : new_entries # {}}
                      \cup {g \in {"remove_mods"} : removed_entries # {}}})

-----------------------------------------------------------------------------
(* The state machine.                                                      *)

Store ==
    [packages |-> packages, orgDirs |-> orgDirs, repoDecl |-> repoDecl,
     registryOrgDirs |-> registryOrgDirs,
     index |-> index, redirect_manager |-> redirect_manager]

SetStore(st) ==
    /\ packages' = st.packages
    /\ orgDirs' = st.orgDirs
    /\ repoDecl' = st.repoDecl
    /\ registryOrgDirs' = st.registryOrgDirs

\* The declaration lines an operator may write into the files of registry/:
\* the URL form, the "org/name" form and the trailing-slash form.
DeclLines ==
    {github_url(RepoAX), Entry(RepoAY), github_url(RepoBZ) \o <<"">>}

\* The contents the operator may give registry/redirects/: nothing, or a
\* redirect of the old URL of a/y followed by a line without " -> ".
RedirectSources ==
    {<<>>, <<OldUrlAY \o Separator \o github_url(RepoAY), <<"moved">> >>}

\* No function is being called on its own.
NoCall == [fn |-> "none", state |-> "none"]

NoOp ==
    [op |-> "none", dry_run |-> FALSE, repos |-> <<>>, tag |-> 0,
     ret |-> "none", n |-> 0, calls |-> {}, sub |-> {}, raised |-> {},
     fetchNone |-> FALSE, report |-> NoReport, removeReport |-> NoReport,
     new |-> {}, removed |-> {}, changed |-> FALSE, prior |-> <<>>]

\* FilesystemPackageRegistry.__init__ on an empty package db; the registry
\* directory is the operator's input and holds any declarations.
Init ==
    /\ index = {}
    /\ packages = <<>>
    /\ orgDirs = {}
    /\ topDecl \in SUBSET DeclLines
    /\ repoDecl = <<>>
    /\ registryOrgDirs = {}
    /\ redirectSrc \in RedirectSources
    /\ redirectsFile = <<>>
    /\ redirect_manager = from_file(NoFile)
    /\ last = NoOp
    /\ steps = 0
    /\ call = NoCall

\* A run is a sequence of at most MaxOps edits and operations.  The last
\* operation of a run is observed: last records its arguments, calls and
\* result, and the run ends (an unobserved operation leaves last at NoOp).
Ready ==
    /\ last = NoOp
    /\ steps < MaxOps

Unobserved ==
    /\ last' = NoOp
    /\ steps' = steps + 1
    /\ UNCHANGED call

Observed(rec) ==
    /\ last' = rec
    /\ steps' = MaxOps
    /\ UNCHANGED call

Observe(rec) == Unobserved \/ Observed(rec)

\* The operator rewrites files of registry/: the declaration files, the
\* files of registry/redirects/, or both.
EditRegistry ==
    /\ Ready
    /\ Unobserved
    /\ \E d \in SUBSET DeclLines, r \in RedirectSources :
           /\ <<d, r>> # <<topDecl, redirectSrc>>
           /\ topDecl' = d
           /\ redirectSrc' = r
    /\ UNCHANGED <<index, storeVars, redirectsFile, redirect_manager>>

\* main.py "add_package": add_package([Repo(org, repoName)], dry_run).
\* exc is drawn only where the call gets as far as validate_package_db.
AddPackage ==
    /\ Ready
    /\ \E repo \in Repos, dry_run \in BOOLEAN :
       \E valid \in SUBSET UpstreamTags(repo) :
       \E exc \in {x \in 0..1 : x > 0 => valid # {}} :
           \E r \in {add_package(Store, topDecl, redirectSrc, <<repo>>, dry_run,
                                <<valid>>, exc)} :
               /\ SetStore(r.st)
               /\ Observe([NoOp EXCEPT !.op = "add_package", !.dry_run = dry_run,
                               !.repos = <<repo>>, !.ret = r.ret, !.n = r.n,
                               !.calls = r.calls, !.fetchNone = (valid = {}),
                               !.report = r.report])
    /\ UNCHANGED <<index, topDecl, redirectSrc, redirectsFile, redirect_manager>>

\* main.py "add_package_release".  valid, ok and exc are drawn only on the
\* paths that read them (elsewhere every value gives the same step).
AddPackageRelease ==
    /\ Ready
    /\ \E repo \in Repos, release_tag \in 1..MaxTag, dry_run \in BOOLEAN :
       LET indexed    == _is_package_in_index(index, repo)
           loaded     == load_mod(Store, repo)
           delegating == indexed /\ loaded = <<>>
           fetching   == /\ indexed
                         /\ loaded # <<>>
                         /\ ~ReleaseTagExists(loaded[1], release_tag)
       IN  \E valid \in {v \in SUBSET UpstreamTags(repo) : v # {} => delegating} :
           \E ok \in {b \in BOOLEAN :
                        b => fetching /\ release_tag \in UpstreamTags(repo)} :
           \E exc \in {x \in 0..1 : x > 0 => (delegating /\ valid # {}) \/ ok} :
               \E r \in {add_package_release(index, Store, topDecl, redirectSrc,
                            repo, release_tag, dry_run, valid, ok, exc)} :
                   /\ SetStore(r.st)
                   /\ Observe([NoOp EXCEPT !.op = "add_package_release",
                                   !.dry_run = dry_run, !.repos = <<repo>>,
                                   !.tag = release_tag, !.ret = r.ret,
                                   !.n = r.n, !.calls = r.calls, !.sub = r.sub,
                                   !.fetchNone = (delegating /\ valid = {}),
                                   !.report = r.report])
    /\ UNCHANGED <<index, topDecl, redirectSrc, redirectsFile, redirect_manager>>

\* The lists remove_mods is called with: main.py "remove" passes one
\* repository; a caller of the method may pass several, in one
\* organization or in two, or one twice.
RemoveLists ==
    {<<r>> : r \in Repos}
        \cup {<<RepoAX, RepoAY>>, <<RepoAY, RepoBZ>>, <<RepoAX, RepoAX>>}

\* remove_mods(repo_list, dry_run).
RemoveMods ==
    /\ Ready
    /\ \E repo_list \in RemoveLists, dry_run \in BOOLEAN :
       \E exc \in {x \in 0..Len(repo_list) : x > 1 => ~dry_run} :
           \E r \in {remove_mods(Store, repo_list, dry_run, exc)} :
               /\ SetStore(r.st)
               /\ Observe([NoOp EXCEPT !.op = "remove_mods", !.dry_run = dry_run,
                               !.repos = repo_list, !.ret = r.ret, !.n = r.n,
                               !.calls = r.calls, !.report = r.report])
    /\ UNCHANGED <<index, topDecl, redirectSrc, redirectsFile, redirect_manager>>

\* The additional_mods validate_package_db is called with: none (main.py
\* "validate"), or the mod of one repository with all its releases.
AdditionalMods ==
    {<<>>} \cup {<<fetch_repo_metadata(r, UpstreamTags(r))>> : r \in Repos}

\* validate_package_db(additional_mods).
Validate ==
    /\ Ready
    /\ \E additional_mods \in AdditionalMods :
           \E r \in {validate_package_db(Store, additional_mods)} :
               /\ SetStore(r.st)
               /\ index' = r.st.index
               /\ redirect_manager' = r.st.redirect_manager
               /\ Observe([NoOp EXCEPT !.op = "validate_package_db",
                               !.repos = [i \in 1..Len(additional_mods) |->
                                   EntryToRepo(LastK(additional_mods[i].latest_manifest.repo_url, 2))],
                               !.ret = "none",
                               !.calls = {"validate_package_db"},
                               !.report = [outcome |-> r.outcome,
                                           missing |-> r.missing]])
    /\ UNCHANGED <<topDecl, redirectSrc, redirectsFile>>

\* main.py "process-registry-updates".  The orders of the new and of the
\* removed entries are drawn only when a call raises part-way (otherwise
\* every order gives the same step); exc_add only when every fetch succeeds.
ProcessRegistryUpdates ==
    /\ Ready
    /\ LET updated == _generate_package_list(topDecl)
           new     == updated \ index
           removed == index \ updated
       IN  \E dry_run \in BOOLEAN :
           \E valid \in {v \in [new -> SUBSET (1..MaxTag)] :
                           \A e \in new : v[e] \subseteq UpstreamTags(EntryToRepo(e))} :
           \E exc_add \in {x \in 0..Cardinality(new) :
                             x > 0 => \A e \in new : valid[e] # {}} :
           \E exc_remove \in 0..Cardinality(removed) :
           \E add_order \in {o \in Orderings(new) :
                               exc_add < 2 => o = SomeOrder(new)} :
           \E remove_order \in {o \in Orderings(removed) :
                                  exc_remove < 2 => o = SomeOrder(removed)} :
               \E r \in {process_registry_updates(index, Store, topDecl,
                            redirectSrc, redirectsFile, redirect_manager,
                            dry_run, valid, add_order, remove_order,
                            exc_add, exc_remove)} :
                   /\ SetStore(r.st)
                   /\ index' = r.idx
                   /\ redirectsFile' = r.file
                   /\ redirect_manager' = r.manager
                   /\ Observe([NoOp EXCEPT !.op = "process_registry_updates",
                                   !.dry_run = dry_run, !.ret = r.ret,
                                   !.calls = r.calls, !.sub = r.sub,
                                   !.raised = r.raised,
                                   !.fetchNone = \E e \in new : valid[e] = {},
                                   !.report = r.report,
                                   !.removeReport = r.removeReport,
                                   !.new = new, !.removed = removed,
                                   !.changed = (r.st.packages # packages)])
    /\ UNCHANGED <<topDecl, redirectSrc>>

\* The run of main.py "process-registry-updates" that follows an observed
\* non-trial operation (an earlier run of it, or an add_package that
\* returned 1) with the declaration and redirect sources left as they
\* were.  prior keeps the record of that earlier operation.  For each new
\* entry the retriever finds every upstream release valid, or none.
NextRegistryUpdates ==
    /\ last.op \in {"process_registry_updates", "add_package"}
    /\ ~last.dry_run
    /\ last.prior = <<>>
    /\ last.op = "add_package" => last.ret = "int" /\ last.n = 1
    /\ LET updated == _generate_package_list(topDecl)
           new     == updated \ index
           removed == index \ updated
       IN  \E valid \in {v \in [new -> SUBSET (1..MaxTag)] :
                           \A e \in new : v[e] \in {{}, UpstreamTags(EntryToRepo(e))}} :
           \E exc_add \in {x \in 0..Cardinality(new) :
                             x > 0 => \A e \in new : valid[e] # {}} :
           \E exc_remove \in 0..Cardinality(removed) :
           \E add_order \in {o \in Orderings(new) :
                               exc_add < 2 => o = SomeOrder(new)} :
           \E remove_order \in {o \in Orderings(removed) :
                                  exc_remove < 2 => o = SomeOrder(removed)} :
               \E r \in {process_registry_updates(index, Store, topDecl,
                            redirectSrc, redirectsFile, redirect_manager,
                            FALSE, valid, add_order, remove_order,
                            exc_add, exc_remove)} :
                   /\ SetStore(r.st)
                   /\ index' = r.idx
                   /\ redirectsFile' = r.file
                   /\ redirect_manager' = r.manager
                   /\ last' = [NoOp EXCEPT !.op = "process_registry_updates",
                                   !.ret = r.ret,
                                   !.calls = r.calls, !.sub = r.sub,
                                   !.raised = r.raised,
                                   !.fetchNone = \E e \in new : valid[e] = {},
                                   !.report = r.report,
                                   !.removeReport = r.removeReport,
                                   !.new = new, !.removed = removed,
                                   !.changed = (r.st.packages # packages),
                                   !.prior = <<last>>]
    /\ UNCHANGED <<topDecl, redirectSrc, steps, call>>

Next ==
    \/ EditRegistry
    \/ AddPackage
    \/ AddPackageRelease
    \/ RemoveMods
    \/ Validate
    \/ ProcessRegistryUpdates

Spec == Init /\ [][Next]_vars

\* The runs in which the scheduled process-registry-updates job follows the
\* observed operation.
SequelNext ==
    \/ Next
    \/ NextRegistryUpdates

SequelSpec == Init /\ [][SequelNext]_vars

-----------------------------------------------------------------------------
(* The functions of the redirect manager and of the retriever, each called *)
(* on its own with an input drawn from a small set; the registry stays as  *)
(* constructed.  call holds the input and the result.                      *)

\* The frames the interpreter's stack holds: a call one frame deeper ends
\* the whole call with a RecursionError.
MaxDepth == 4

\* The urls of the redirect tables that resolve is called on.
RedirectUrls == {"A", "B", "C"}

\* Every table over these urls, those with cycles included.
RedirectTables ==
    UNION {[S -> RedirectUrls] : S \in SUBSET RedirectUrls}

-----------------------------------------------------------------------------
(* process_release on a release as GitHub gives it.  A release is          *)
(* [status_code, assets, tags, mod_type, dependencies, tag_name]:          *)
(* status_code is the answer to the download of mod.json, tags, mod_type   *)
(* and dependencies are the fields of that mod.json.  An asset name is the *)
(* sequence of its stem and its suffixes, <<"mod", ".pak">>; tag_name and  *)
(* the version of a dependency are strings as TagName and RangeText give   *)
(* them.  An Optional[str] is <<>> (None) or a sequence of one entry.      *)

VALID_TAGS ==
    {"Mutator", "Map", "Cosmetic", "Audio", "Model", "Weapon", "Doodad", "Explicit"}

VALID_MOD_TYPES == {"Client", "Server", "Shared"}

\* Version.parse(s) succeeds: s is major.minor.patch.
IsSemver(version) == Len(version) = 3

\* Version.parse on a string as it is: a leading "v" is a ValueError.
VersionParses(s) == ~s.v /\ IsSemver(s.version)

\* The operators that Version.match takes in front of a version.
MatchOps == {"==", "!=", ">=", "<=", ">", "<"}

\* test_version.match(part) raises no ValueError: an operator, or none in
\* front of a digit, and then a version.
ClauseParses(c) == c.op \in MatchOps \cup {""} /\ IsSemver(c.version)

\* The try block of validate_dependency_versions on one version string: a
\* leading "v" is dropped, then a leading "^" becomes ">=", then every
\* part between commas must parse.
RangeParses(version) ==
    LET input_version_range == StripV(version).clauses
        parts == [i \in 1..Len(input_version_range) |->
                     IF i = 1 /\ input_version_range[i].op = "^"
                     THEN [input_version_range[i] EXCEPT !.op = ">="]
                     ELSE input_version_range[i]]
    IN  /\ parts # <<>>
        /\ \A i \in 1..Len(parts) : ClauseParses(parts[i])

\* asset.name.endswith(".pak")
IsPak(asset) == asset # <<>> /\ asset[Len(asset)] = ".pak"

\* Faulty variant: with several .pak assets the first one is returned.
find_pak_file_FirstPak(release) ==
    LET paks == SelectSeq(release.assets, IsPak)
    IN  IF Len(paks) = 0
        THEN [kind |-> "str", message |-> "No pak file found for release",
              tag_name |-> release.tag_name, asset |-> <<>>]
        ELSE [kind |-> "asset", message |-> "", tag_name |-> release.tag_name,
              asset |-> paks[1]]

\* find_pak_file: the one .pak asset, or an error string with the tag name.
find_pak_file(release) ==
    LET paks == SelectSeq(release.assets, IsPak)
    IN  IF Len(paks) = 0
        THEN [kind |-> "str", message |-> "No pak file found for release",
              tag_name |-> release.tag_name, asset |-> <<>>]
        ELSE IF Len(paks) > 1
        THEN [kind |-> "str", message |-> "Multiple pak files found for release",
              tag_name |-> release.tag_name, asset |-> <<>>]
        ELSE [kind |-> "asset", message |-> "", tag_name |-> release.tag_name,
              asset |-> paks[1]]

validate_version_tag_name(tag_name) ==
    IF VersionParses(StripV(tag_name)) THEN <<>>
    ELSE <<[rule |-> "tag_name", about |-> <<StripV(tag_name)>>]>>

RECURSIVE validate_dependency_versions(_)
validate_dependency_versions(dependencies) ==
    IF dependencies = <<>> THEN <<>>
    ELSE (IF RangeParses(Head(dependencies).version) THEN <<>>
          ELSE <<[rule  |-> "dependency",
                  about |-> <<[dependency_name |-> LastK(Head(dependencies).repo_url, 2),
                               version |-> Head(dependencies).version]>>]>>)
         \o validate_dependency_versions(Tail(dependencies))

IsInvalidTag(tag) == tag \notin VALID_TAGS

validate_tags(tags) ==
    LET invalid_tags == SelectSeq(tags, IsInvalidTag)
    IN  IF Len(invalid_tags) > 0
        THEN <<[rule |-> "tags", about |-> invalid_tags]>>
        ELSE <<>>

validate_mod_type(mod_type) ==
    IF mod_type \notin VALID_MOD_TYPES
    THEN <<[rule |-> "mod_type", about |-> <<mod_type>>]>>
    ELSE <<>>

\* Faulty variant: a repo_url that the uploaded mod.json holds is kept.
StampRepoUrl_KeepsUploaded(response_json, repo) ==
    IF response_json.repo_url # <<>> THEN response_json
    ELSE [response_json EXCEPT !.repo_url = <<github_url(repo)>>]

\* response_json["repo_url"] = repo.github_url(): the key is set, whether
\* the uploaded mod.json had it (repo_url = <<url>>) or not (<<>>).
StampRepoUrl(response_json, repo) ==
    [response_json EXCEPT !.repo_url = <<github_url(repo)>>]

\* Manifest.from_dict: the repo_url of the manifest is the value of the key.
ManifestRepoUrl(response_json) == response_json.repo_url[1]

\* Faulty variant: the first failure is raised alone.
ProcessRelease_ShortCircuit(repo, release) ==
    LET pak == find_pak_file(release)
        pak_error == IF pak.kind = "str" THEN <<[rule |-> "pak", about |-> <<pak>>]>> ELSE <<>>
        all_errors == pak_error \o validate_tags(release.tags)
                          \o validate_mod_type(release.mod_type)
                          \o validate_version_tag_name(release.tag_name)
                          \o validate_dependency_versions(release.dependencies)
    IN  IF release.status_code = 404
        THEN [ret |-> "Exception", message |-> "mod.json does not exist for this release.",
              errors |-> <<>>, release |-> <<>>]
        ELSE IF release.status_code # 200
        THEN [ret |-> "Exception", message |-> "Failed to download mod.json",
              errors |-> <<>>, release |-> <<>>]
        ELSE IF all_errors # <<>>
        THEN [ret |-> "Exception", message |-> "failed validation",
              errors |-> <<Head(all_errors)>>, release |-> <<>>]
        ELSE [ret |-> "Release", message |-> "", errors |-> <<>>,
              release |-> <<[process_release(repo, release.tag_name.version[2])
                                EXCEPT !.manifest.repo_url =
                                    ManifestRepoUrl(StampRepoUrl(release, repo))]>>]

\* process_release, from the download of mod.json on: the exception it
\* raises with the entries of its message, or the Release it returns
\* (process_release(repo, tag) above, for the tag "v1.<tag>.0").
ProcessRelease(repo, release) ==
    LET pak == find_pak_file(release)
        pak_error == IF pak.kind = "str" THEN <<[rule |-> "pak", about |-> <<pak>>]>> ELSE <<>>
        tag_error == validate_tags(release.tags)
        mod_type_error == validate_mod_type(release.mod_type)
        dependency_errors == validate_dependency_versions(release.dependencies)
        tag_name_error == validate_version_tag_name(release.tag_name)
        all_errors == pak_error \o tag_error \o mod_type_error \o tag_name_error
                          \o dependency_errors
    IN  IF release.status_code = 404
        THEN [ret |-> "Exception", message |-> "mod.json does not exist for this release.",
              errors |-> <<>>, release |-> <<>>]
        ELSE IF release.status_code # 200
        THEN [ret |-> "Exception", message |-> "Failed to download mod.json",
              errors |-> <<>>, release |-> <<>>]
        ELSE IF \/ pak_error # <<>>
                \/ tag_error # <<>>
                \/ mod_type_error # <<>>
                \/ dependency_errors # <<>>
                \/ tag_name_error # <<>>
        THEN [ret |-> "Exception", message |-> "failed validation",
              errors |-> all_errors, release |-> <<>>]
        ELSE [ret |-> "Release", message |-> "", errors |-> <<>>,
              release |-> <<[process_release(repo, release.tag_name.version[2])
                                EXCEPT !.manifest.repo_url =
                                    ManifestRepoUrl(StampRepoUrl(release, repo))]>>]

\* The assets of the releases that the functions are called on.
ModPak == <<"mod", ".pak">>

Mod2Pak == <<"mod2", ".pak">>

Readme == <<"readme", ".md">>

AssetLists ==
    {<<>>, <<ModPak>>, <<Readme>>, <<ModPak, Readme>>, <<Readme, ModPak>>,
     <<ModPak, Mod2Pak>>, <<ModPak, Readme, Mod2Pak>>,
     << <<"mod", ".pak", ".zip">>, <<"MOD", ".PAK">> >>}

\* "v1.1.0", "1.1.0", "v1.1" and "v".
TagNames ==
    {TagName(1), StripV(TagName(1)),
     [TagName(1) EXCEPT !.version = SubSeq(TagName(1).version, 1, 2)],
     [TagName(1) EXCEPT !.version = <<>>]}

TagLists == {<<>>, <<"Map">>, <<"Map", "Weapon">>, <<"Gamemode", "Map">>, <<"Gamemode", "map">>}

ModTypes == {"Client", "Shared", "Both"}

\* A dependency on a/y with the range ">=1.1.0,<1.2.0", "v^1.1.0",
\* "~1.1.0", ">=1.1.0,^1.2.0", ">=1.1" or "v".
DependencyOn(version) == [repo_url |-> github_url(RepoAY), version |-> version]

GoodRange == RangeText(<<[op |-> ">=", minor |-> 1], [op |-> "<", minor |-> 2]>>)

CaretRange == [RangeText(<<[op |-> "^", minor |-> 1]>>) EXCEPT !.v = TRUE]

TildeRange == RangeText(<<[op |-> "~", minor |-> 1]>>)

LateCaretRange == RangeText(<<[op |-> ">=", minor |-> 1], [op |-> "^", minor |-> 2]>>)

ShortRange == [v |-> FALSE, clauses |-> <<[op |-> ">=", version |-> SubSeq(TagName(1).version, 1, 2)]>>]

EmptyRange == [v |-> TRUE, clauses |-> <<>>]

DependencyLists ==
    {<<>>, <<DependencyOn(GoodRange)>>, <<DependencyOn(CaretRange)>>,
     <<DependencyOn(TildeRange)>>, <<DependencyOn(LateCaretRange)>>,
     <<DependencyOn(ShortRange), DependencyOn(GoodRange), DependencyOn(EmptyRange)>>}

StatusCodes == {200, 404, 500}

GitReleases ==
    [status_code : StatusCodes, assets : AssetLists, tags : TagLists,
     mod_type : ModTypes, dependencies : DependencyLists, tag_name : TagNames,
     repo_url : {<<>>, <<github_url(RepoAX)>>, <<github_url(RepoAY)>>}]

\* The releases that a repository lists upstream in the calls of
\* fetch_repo_metadata: v1.1.0 or v1.2.0, found or not, with one pak or
\* two, of a valid type or not.
UpstreamReleases ==
    [status_code : {200, 404}, assets : {<<ModPak>>, <<ModPak, Mod2Pak>>},
     tags : {<<>>}, mod_type : {"Client", "Both"}, dependencies : {<<>>},
     tag_name : {TagName(1), TagName(2)}, repo_url : {<<>>}]

\* The lists of at most two releases with different tag names.
UpstreamReleaseLists ==
    {<<>>} \cup {<<r>> : r \in UpstreamReleases}
        \cup {l \in UpstreamReleases \X UpstreamReleases :
                  l[1].tag_name # l[2].tag_name}

\* Faulty variant: one release that fails makes the whole listing fail.
FetchAllReleases_FailsAll(repo, git_releases) ==
    LET F[k \in 0..Len(git_releases)] ==
            IF k = 0 THEN <<>>
            ELSE LET r == ProcessRelease(repo, git_releases[k])
                 IN  IF r.ret = "Release" THEN F[k - 1] \o r.release ELSE <<>>
    IN  IF \E k \in 1..Len(git_releases) :
               ProcessRelease(repo, git_releases[k]).ret # "Release"
        THEN <<>>
        ELSE SortByDateDesc(F[Len(git_releases)])

\* fetch_all_releases on the releases that upstream lists: each release is
\* processed in its own try block, a release that raises is skipped, and
\* the results are sorted by release date, newest first.
FetchAllReleases(repo, git_releases) ==
    LET F[k \in 0..Len(git_releases)] ==
            IF k = 0 THEN <<>>
            ELSE LET r == ProcessRelease(repo, git_releases[k])
                 IN  IF r.ret = "Release" THEN F[k - 1] \o r.release ELSE F[k - 1]
    IN  SortByDateDesc(F[Len(git_releases)])

\* fetch_repo_metadata: lookup_ok = FALSE when get_repo or get_releases
\* raises, which the except clause turns into None.
FetchRepoMetadata(repo, git_releases, lookup_ok) ==
    LET releases == IF lookup_ok THEN FetchAllReleases(repo, git_releases) ELSE <<>>
    IN  IF ~lookup_ok \/ Len(releases) = 0 THEN None
        ELSE [latest_manifest |-> releases[1].manifest, releases |-> releases]

FunctionInit ==
    /\ index = {}
    /\ packages = <<>>
    /\ orgDirs = {}
    /\ topDecl = {}
    /\ repoDecl = <<>>
    /\ registryOrgDirs = {}
    /\ redirectSrc = <<>>
    /\ redirectsFile = <<>>
    /\ redirect_manager = from_file(NoFile)
    /\ last = NoOp
    /\ steps = 0
    /\ call = NoCall

\* Faulty variant: a frame returns the redirect of its url, calling no
\* further frame.
ResolveFrame_NoRecursion(redirects, repo) ==
    IF repo \in DOMAIN redirects
    THEN [state |-> "returned", repo |-> redirects[repo]]
    ELSE [state |-> "returned", repo |-> repo]

\* One frame of resolve: it calls resolve on the redirect of its url, or
\* returns its url.
ResolveFrame(redirects, repo) ==
    IF repo \in DOMAIN redirects
    THEN [state |-> "running", repo |-> redirects[repo]]
    ELSE [state |-> "returned", repo |-> repo]

\* resolve(repo) is called: the first frame of the recursion.
CallResolve ==
    /\ call = NoCall
    /\ \E redirects \in RedirectTables, repo \in RedirectUrls :
           call' = [fn |-> "resolve", redirects |-> redirects, start |-> repo,
                    repo |-> repo, depth |-> 1, state |-> "running",
                    result |-> ""]
    /\ UNCHANGED registryVars

\* "if repo in self.redirects: return self.resolve(self.redirects[repo])":
\* the next frame.
ResolveRecurse ==
    /\ call.fn = "resolve"
    /\ call.state = "running"
    /\ call.depth < MaxDepth
    /\ \E frame \in {ResolveFrame(call.redirects, call.repo)} :
          /\ frame.state = "running"
          /\ call' = [call EXCEPT !.repo = frame.repo, !.depth = call.depth + 1]
    /\ UNCHANGED registryVars

\* The stack is full and the frame calls resolve again: RecursionError, no
\* value is returned.
ResolveOverflow ==
    /\ call.fn = "resolve"
    /\ call.state = "running"
    /\ call.depth = MaxDepth
    /\ ResolveFrame(call.redirects, call.repo).state = "running"
    /\ call' = [call EXCEPT !.state = "raised"]
    /\ UNCHANGED registryVars

\* "else: return repo": every frame returns the value.
ResolveReturn ==
    /\ call.fn = "resolve"
    /\ call.state = "running"
    /\ \E frame \in {ResolveFrame(call.redirects, call.repo)} :
          /\ frame.state = "returned"
          /\ call' = [call EXCEPT !.state = "returned", !.result = frame.repo]
    /\ UNCHANGED registryVars

\* The lines parse_redirects is called on: "A -> B", "B -> C", "A -> C",
\* " A -> B ", "A -> C -> B", "A -> ", " -> B", "A", "" and " ".
RedirectLines ==
    {<<"A">> \o Separator \o <<"B">>,
     <<"B">> \o Separator \o <<"C">>,
     <<"A">> \o Separator \o <<"C">>,
     <<" ", "A">> \o Separator \o <<"B", " ">>,
     <<"A">> \o Separator \o <<"C">> \o Separator \o <<"B">>,
     <<"A">> \o Separator,
     Separator \o <<"B">>,
     <<"A">>,
     <<>>,
     <<" ">>}

\* The lists of at most three of these lines.
RedirectLineLists ==
    {<<>>} \cup {<<a>> : a \in RedirectLines}
           \cup {<<a, b>> : a \in RedirectLines, b \in RedirectLines}
           \cup {<<a, b, c>> : a \in RedirectLines, b \in RedirectLines,
                               c \in RedirectLines}

\* parse_redirects(redirect_lines) is called and returns its table.
CallParseRedirects ==
    /\ call = NoCall
    /\ \E redirect_lines \in RedirectLineLists :
           call' = [fn |-> "parse_redirects", redirect_lines |-> redirect_lines,
                    state |-> "returned",
                    result |-> parse_redirects(redirect_lines)]
    /\ UNCHANGED registryVars

\* from_file(file_path) is called on a missing file or on a file of lines.
CallFromFile ==
    /\ call = NoCall
    /\ \E file \in {NoFile} \cup {FileOf(l) : l \in RedirectLineLists} :
           call' = [fn |-> "from_file", file |-> file, state |-> "returned",
                    result |-> from_file(file)]
    /\ UNCHANGED registryVars

\* validate_version_tag_name is called on a tag name without "v" and on the
\* same tag name with "v" in front.
CallValidateVersionTagName ==
    /\ call = NoCall
    /\ \E tag_name \in {[v |-> FALSE, version |-> t.version] : t \in TagNames} :
           call' = [fn |-> "validate_version_tag_name", tag_name |-> tag_name,
                    state |-> "returned",
                    result |-> validate_version_tag_name(tag_name),
                    result_v |-> validate_version_tag_name(WithV(tag_name))]
    /\ UNCHANGED registryVars

\* The ranges ">=1.1.0", ">=1.2.0", "<1.1.0" and ">=1.1.0,<1.2.0".
DependencyRanges ==
    {RangeText(<<[op |-> ">=", minor |-> 1]>>),
     RangeText(<<[op |-> ">=", minor |-> 2]>>),
     RangeText(<<[op |-> "<", minor |-> 1]>>),
     GoodRange}

\* The version test of _find_dependency is made on a release tag and a
\* range without "v", and on the same strings with "v" in front.
CallTagMatchesRange ==
    /\ call = NoCall
    /\ \E tag \in 0..MaxTag, dep_version \in DependencyRanges :
           \E release_tag \in {[v |-> FALSE, version |-> TagName(tag).version]} :
              call' = [fn |-> "_find_dependency", release_tag |-> release_tag,
                       dep_version |-> dep_version, state |-> "returned",
                       result |-> TagMatchesRange(release_tag, dep_version),
                       result_vt |-> TagMatchesRange(WithV(release_tag), dep_version),
                       result_vr |-> TagMatchesRange(release_tag, WithV(dep_version)),
                       result_vv |-> TagMatchesRange(WithV(release_tag), WithV(dep_version))]
    /\ UNCHANGED registryVars

\* The write loop of add_package runs on an empty registry for the Mod
\* fetched for repo, its repo_url with or without a trailing slash, and
\* load_mod is called for repo and for another repository.
CallAddPackageLoadMod ==
    /\ call = NoCall
    /\ \E repo \in Repos, other \in Repos, slash \in {<<>>, <<"">>} :
       \E valid \in SUBSET UpstreamTags(repo) \ {{}} :
       \E fetched \in {fetch_repo_metadata(repo, valid)} :
       \E mod \in {[fetched EXCEPT !.latest_manifest.repo_url = @ \o slash]} :
       \E st \in {WriteMods(Store, topDecl, redirectSrc, <<mod>>, 1)} :
           /\ other # repo
           /\ call' = [fn |-> "add_package", repo |-> repo, other |-> other,
                       mod |-> mod, state |-> "returned", st |-> st,
                       loaded |-> load_mod(st, repo),
                       loaded_other |-> load_mod(st, other)]
    /\ UNCHANGED registryVars

\* add_package is called on a batch of two repositories, on a registry
\* that is empty or holds the third repository; valid[i] = {} makes
\* fetch_repo_metadata return None for repos[i].
CallAddPackageBatch ==
    /\ call = NoCall
    /\ \E repos \in {l \in ListsOver(Repos, 2) : Len(l) = 2}, dry_run \in BOOLEAN :
       \E valid \in {<<a, b>> : a \in SUBSET UpstreamTags(repos[1]),
                                 b \in SUBSET UpstreamTags(repos[2])} :
       \E held \in {<<>>} \cup {<<fetch_repo_metadata(r, UpstreamTags(r))>> :
                                     r \in Repos \ SeqToSet(repos)} :
       \E before \in {WriteMods(Store, topDecl, redirectSrc, held, Len(held))} :
       \E r \in {add_package(before, topDecl, redirectSrc, repos, dry_run, valid, 0)} :
           call' = [fn |-> "add_package_batch", repos |-> repos,
                    dry_run |-> dry_run, valid |-> valid, before |-> before,
                    state |-> "returned", ret |-> r.ret, n |-> r.n, st |-> r.st,
                    calls |-> r.calls]
    /\ UNCHANGED registryVars

\* find_pak_file(release) is called.
CallFindPakFile ==
    /\ call = NoCall
    /\ \E release \in [assets : AssetLists, tag_name : TagNames] :
           call' = [fn |-> "find_pak_file", release |-> release,
                    state |-> "returned", result |-> find_pak_file(release)]
    /\ UNCHANGED registryVars

\* process_release(repo, release) is called: it raises or returns.
\* "\n".join(redirect_lines): the text written to redirects.txt, the
\* tokens of the lines with a "\n" between two lines.
RECURSIVE JoinLines(_)
JoinLines(lines) ==
    IF lines = <<>> THEN <<>>
    ELSE IF Len(lines) = 1 THEN lines[1]
    ELSE lines[1] \o <<"\n">> \o JoinLines(Tail(lines))

\* file.read().splitlines(): the text cut at every "\n"; a "\n" at the
\* end of the text does not start another line.
RECURSIVE SplitLines(_)
SplitLines(text) ==
    IF text = <<>> THEN <<>>
    ELSE LET breaks == {i \in 1..Len(text) : text[i] = "\n"}
         IN  IF breaks = {} THEN <<text>>
             ELSE LET b == CHOOSE i \in breaks : \A j \in breaks : i <= j
                  IN  <<Slice(text, 1, b - 1)>>
                          \o SplitLines(Slice(text, b + 1, Len(text)))

\* process_registry_updates on a registry that indexes and stores some of
\* a/y and b/z, declares some of a/x and a/y, and whose redirects.txt and
\* active table are empty or hold the redirect of the old URL of a/y.
\* valid[e] is what the retriever would answer for the declared entry e.
CallProcessRegistryUpdates ==
    /\ call = NoCall
    /\ \E idx \in SUBSET {Entry(RepoAY), Entry(RepoBZ)}, dry_run \in BOOLEAN :
       \E top \in SUBSET {github_url(RepoAX), Entry(RepoAY)} :
       \E redir \in RedirectSources, file \in RedirectSources :
       \E new \in {_generate_package_list(top) \ idx} :
       \E removed \in {idx \ _generate_package_list(top)} :
       \E valid \in {v \in [_generate_package_list(top) -> SUBSET (1..MaxTag)] :
                       \A e \in DOMAIN v : v[e] \subseteq UpstreamTags(EntryToRepo(e))} :
       \E exc_add \in {x \in 0..Cardinality(new) :
                         x > 0 => \A e \in new : valid[e] # {}} :
       \E exc_remove \in 0..Cardinality(removed) :
       \E held \in {[i \in 1..Cardinality(idx) |->
                        fetch_repo_metadata(EntryToRepo(SomeOrder(idx)[i]),
                            UpstreamTags(EntryToRepo(SomeOrder(idx)[i])))]} :
       \E before \in {[WriteMods(Store, top, redir, held, Len(held))
                          EXCEPT !.index = idx,
                                 !.redirect_manager = parse_redirects(file)]} :
       \E r \in {process_registry_updates(idx, before, top, redir, file,
                    parse_redirects(file), dry_run, valid, SomeOrder(new),
                    SomeOrder(removed), exc_add, exc_remove)} :
           call' = [fn |-> "process_registry_updates", state |-> "returned",
                    idx |-> idx, dry_run |-> dry_run, top |-> top,
                    redir |-> redir, file |-> file, valid |-> valid,
                    exc_add |-> exc_add, exc_remove |-> exc_remove,
                    before |-> before, new |-> new, removed |-> removed,
                    result |-> r]
    /\ UNCHANGED registryVars

\* remove_mods([repo]) called directly on a registry that indexes and
\* stores the entries of idx, and then validate_package_db([]) and
\* add_package([other]) on the registry that the removal left.
CallValidateAfterRemove ==
    /\ call = NoCall
    /\ \E idx \in SUBSET {Entry(r) : r \in Repos}, repo \in Repos, other \in Repos :
       \E file \in RedirectSources, dry_run \in BOOLEAN :
       \E valid \in SUBSET UpstreamTags(other) :
       \E held \in {[i \in 1..Cardinality(idx) |->
                        fetch_repo_metadata(EntryToRepo(SomeOrder(idx)[i]),
                            UpstreamTags(EntryToRepo(SomeOrder(idx)[i])))]} :
       \E before \in {[WriteMods(Store, topDecl, redirectSrc, held, Len(held))
                          EXCEPT !.index = idx,
                                 !.redirect_manager = parse_redirects(file)]} :
       \E removed \in {remove_mods(before, <<repo>>, FALSE, 0)} :
       \E v \in {validate_package_db(removed.st, <<>>)} :
       \E a \in {add_package(removed.st, topDecl, redirectSrc, <<other>>,
                             dry_run, <<valid>>, 0)} :
           call' = [fn |-> "validate_after_remove", state |-> "returned",
                    idx |-> idx, repo |-> repo, other |-> other,
                    dry_run |-> dry_run, valid |-> valid, before |-> before,
                    removed |-> removed,
                    report |-> [outcome |-> v.outcome, missing |-> v.missing],
                    added |-> a]
    /\ UNCHANGED registryVars

\* fetch_repo_metadata on a repository, and add_package of the same
\* repository on an empty registry with the same upstream answers.
CallFetchRepoMetadata ==
    /\ call = NoCall
    /\ \E repo \in Repos, lookup_ok \in BOOLEAN, git_releases \in UpstreamReleaseLists :
           \E r \in {FetchRepoMetadata(repo, git_releases, lookup_ok)} :
           \E a \in {add_package(Store, topDecl, redirectSrc, <<repo>>, FALSE,
                                 <<{r.releases[i].tag : i \in 1..Len(r.releases)}>>, 0)} :
              call' = [fn |-> "fetch_repo_metadata", repo |-> repo,
                       git_releases |-> git_releases, lookup_ok |-> lookup_ok,
                       state |-> "returned", ret |-> r, n |-> a.n,
                       st |-> a.st]
    /\ UNCHANGED registryVars

CallProcessRelease ==
    /\ call = NoCall
    /\ \E release \in GitReleases :
           \E r \in {ProcessRelease(RepoAX, release)} :
              call' = [fn |-> "process_release", repo |-> RepoAX,
                       release |-> release,
                       state |-> IF r.ret = "Release" THEN "returned" ELSE "raised",
                       result |-> r]
    /\ UNCHANGED registryVars

\* The text of a declaration line, token by token: "/" is a token of its
\* own here, so that blanks may stand on either side of it.
Slash == <<"/">>

UrlText(repo) ==
    <<"https:", "/", "/", "github.com", "/", repo.org, "/", repo.name>>

EntryText(repo) == <<repo.org, "/", repo.name>>

\* repo.rstrip(os.path.sep): the "/" at the end are dropped.
RECURSIVE rstrip_sep(_)
rstrip_sep(repo) ==
    IF repo # <<>> /\ repo[Len(repo)] = "/"
    THEN rstrip_sep(Slice(repo, 1, Len(repo) - 1))
    ELSE repo

\* os.path.sep.join(parts).
RECURSIVE join(_)
join(parts) ==
    IF parts = <<>> THEN <<>>
    ELSE IF Len(parts) = 1 THEN parts[1]
    ELSE parts[1] \o Slash \o join(Tail(parts))

\* repo_to_index_entry on the text of a line.
RepoToIndexEntry(repo) ==
    join(LastK(split(rstrip_sep(strip(repo)), Slash), 2))

\* A directory is <<>> when it does not exist, else <<listing>>, the listing
\* a sequence of entries in the order os.listdir gives them.  An entry is
\* [isfile, lines, files]: a file (or a link to one: os.path.isfile follows
\* links) with its lines, or a directory with the files in it.
StartsWithHash(line) == line # <<>> /\ Head(line) = "#"

KeepLine(line) == ~StartsWithHash(line) /\ line # <<>>

\* The lines that the loop over one open file appends.
FileLines(lines) ==
    SelectSeq([i \in 1..Len(lines) |-> strip(lines[i])], KeepLine)

RECURSIVE Flatten(_)
Flatten(lists) ==
    IF lists = <<>> THEN <<>> ELSE Head(lists) \o Flatten(Tail(lists))

\* Faulty variant: the files of the subdirectories are read as well.
GetAllTextLinesInDirectory_Walks(directory) ==
    IF directory = <<>> THEN <<>>
    ELSE Flatten([i \in 1..Len(directory[1]) |->
             IF directory[1][i].isfile THEN FileLines(directory[1][i].lines)
             ELSE Flatten([j \in 1..Len(directory[1][i].files) |->
                      FileLines(directory[1][i].files[j])])])

\* _get_all_text_lines_in_directory.
GetAllTextLinesInDirectory(directory) ==
    IF directory = <<>> THEN <<>>
    ELSE Flatten([i \in 1..Len(directory[1]) |->
             IF directory[1][i].isfile THEN FileLines(directory[1][i].lines)
             ELSE <<>>])

\* _generate_package_list on a directory.
GeneratePackageList(directory) ==
    LET all_lines == GetAllTextLinesInDirectory(directory)
    IN  [i \in 1..Len(all_lines) |-> RepoToIndexEntry(all_lines[i])]

\* The lines a file of the registry directory may hold: a URL, a padded
\* "org/name", a URL with a "/" at its end, a comment, an indented
\* comment, an empty line and a line of blanks.
RawLines ==
    {UrlText(RepoAX),
     <<" ">> \o EntryText(RepoAY) \o <<" ">>,
     UrlText(RepoBZ) \o Slash,
     <<"#", " ">> \o EntryText(RepoAX),
     <<" ", "#">> \o UrlText(RepoAY),
     <<>>,
     <<" ", " ">>}

\* The entries of the registry directory: a file of at most two lines, the
\* redirects directory, and the directory of an organization with the
\* declaration file that add_package writes.
DirEntries ==
    {[isfile |-> TRUE, lines |-> l, files |-> <<>>] :
        l \in {<<>>} \cup {<<a>> : a \in RawLines}
                    \cup {<<a, b>> : a \in RawLines, b \in RawLines}}
    \cup {[isfile |-> FALSE, lines |-> <<>>,
           files |-> <<<<UrlText(RepoAX) \o Separator \o UrlText(RepoAY)>>>>],
          [isfile |-> FALSE, lines |-> <<>>,
           files |-> <<<<UrlText(RepoAY)>>>>],
          [isfile |-> FALSE, lines |-> <<>>, files |-> <<>>]}

\* The registry directory: missing, empty, or with one or two entries.
Directories ==
    {<<>>, <<<<>>>>}
        \cup {<<<<e>>>> : e \in DirEntries}
        \cup {<<<<e, f>>>> : e \in DirEntries, f \in DirEntries}

CallGeneratePackageList ==
    /\ call = NoCall
    /\ \E directory \in Directories :
           call' = [fn |-> "_generate_package_list", directory |-> directory,
                    state |-> "returned",
                    ret |-> GeneratePackageList(directory)]
    /\ UNCHANGED registryVars

\* The spellings of a repository in a declaration line: the URL, "org/name",
\* the URL with a "/" at its end, the URL between blanks, and spellings
\* with both a "/" at the end and blanks, the blanks after the "/" or
\* before it.
SpellingForms ==
    {"url", "entry", "slash", "padded", "slash_padded", "padded_slash"}

Spelling(repo, form) ==
    CASE form = "url"          -> UrlText(repo)
      [] form = "entry"        -> EntryText(repo)
      [] form = "slash"        -> UrlText(repo) \o Slash
      [] form = "padded"       -> <<" ">> \o UrlText(repo) \o <<" ">>
      [] form = "slash_padded" -> <<" ">> \o EntryText(repo) \o Slash \o <<" ">>
      [] form = "padded_slash" -> UrlText(repo) \o <<" ">> \o Slash

CallRepoToIndexEntry ==
    /\ call = NoCall
    /\ \E r \in Repos, form \in SpellingForms :
       \E ret \in {RepoToIndexEntry(Spelling(r, form))} :
           call' = [fn |-> "repo_to_index_entry", repo |-> r, form |-> form,
                    state |-> "returned", ret |-> ret,
                    again |-> RepoToIndexEntry(ret)]
    /\ UNCHANGED registryVars

\* add_package([repo]) on a registry directory whose top-level files hold
\* the lines top (a declaration of the repository, of another one, or a
\* comment that mentions it), whose redirects/ holds redir, and where
\* <org>/<name>.txt holds the lines decl (none when the file is missing).
CallAddPackageDeclare ==
    /\ call = NoCall
    /\ \E repo \in Repos, other \in Repos, dry_run \in BOOLEAN :
       \E top \in SUBSET {github_url(repo), Entry(other), <<"#">> \o Entry(repo)} :
       \E redir \in RedirectSources :
       \E decl \in {<<>>, <<github_url(repo) \o <<"">> >>} :
       \E before \in {[Store EXCEPT !.repoDecl =
                          [e \in {Entry(repo)} \cap {Entry(repo) : i \in 1..Len(decl)}
                              |-> decl[1]]]} :
       \E r \in {add_package(before, top, redir, <<repo>>, dry_run,
                              <<UpstreamTags(repo)>>, 0)} :
           /\ other # repo
           /\ call' = [fn |-> "add_package_declare", repo |-> repo,
                       dry_run |-> dry_run, top |-> top, redir |-> redir,
                       before |-> before, state |-> "returned",
                       ret |-> r.ret, n |-> r.n, st |-> r.st]
    /\ UNCHANGED registryVars

\* add_package_release(repo, release_tag, dry_run) on a package db that
\* lists the repository or not (idx) and holds its record with the releases
\* stored (no record when stored is empty).  direct is what
\* add_package([repo], dry_run) gives on the same package db.
CallAddPackageRelease ==
    /\ call = NoCall
    /\ \E repo \in Repos, release_tag \in 1..MaxTag, dry_run \in BOOLEAN :
       \E idx \in {{}, {Entry(repo)}}, ok \in BOOLEAN, exc \in 0..1 :
       \E stored \in SUBSET UpstreamTags(repo), valid \in SUBSET UpstreamTags(repo) :
       \E held \in {IF stored = {} THEN <<>>
                     ELSE <<fetch_repo_metadata(repo, stored)>>} :
       \E before \in {WriteMods(Store, topDecl, redirectSrc, held, Len(held))} :
       \E r \in {add_package_release(idx, before, topDecl, redirectSrc, repo,
                                      release_tag, dry_run, valid, ok, exc)} :
           call' = [fn |-> "add_package_release_call", repo |-> repo,
                    release_tag |-> release_tag, dry_run |-> dry_run,
                    idx |-> idx, ok |-> ok, exc |-> exc, stored |-> stored,
                    valid |-> valid, before |-> before, state |-> "returned",
                    ret |-> r.ret, n |-> r.n, st |-> r.st, calls |-> r.calls,
                    sub |-> r.sub,
                    direct |-> add_package(before, topDecl, redirectSrc,
                                           <<repo>>, dry_run, <<valid>>, exc)]
    /\ UNCHANGED registryVars

FunctionNext ==
    \/ CallResolve
    \/ ResolveRecurse
    \/ ResolveReturn
    \/ ResolveOverflow
    \/ CallParseRedirects
    \/ CallFromFile
    \/ CallFindPakFile
    \/ CallAddPackageLoadMod
    \/ CallAddPackageBatch
    \/ CallValidateVersionTagName
    \/ CallTagMatchesRange
    \/ CallProcessRelease
    \/ CallGeneratePackageList
    \/ CallRepoToIndexEntry
    \/ CallAddPackageDeclare
    \/ CallAddPackageRelease
    \/ CallFetchRepoMetadata
    \/ CallProcessRegistryUpdates
    \/ CallValidateAfterRemove

FunctionSpec ==
    /\ FunctionInit
    /\ [][FunctionNext]_vars
    /\ WF_vars(ResolveRecurse)
    /\ WF_vars(ResolveReturn)
    /\ WF_vars(ResolveOverflow)

-----------------------------------------------------------------------------
(* Two main.py "add_package_release" processes at work on the same package *)
(* db.  Nothing locks the record file, so each process is two steps: the   *)
(* index check with load_mod, and the rest of the call with the write.     *)
(* call holds the package db (st, idx), the two tags, and for each process *)
(* its position pc, the record it loaded and its result; log lists the     *)
(* steps taken.                                                            *)

\* Faulty variant: the record is loaded again when it is written.
ReleaseAfterLoad_Reloads(st, repo, mod, release_tag, dry_run, ok) ==
    LET r == add_package_release({Entry(repo)}, st, {}, <<>>, repo,
                                 release_tag, dry_run, {}, ok, 0)
    IN  [st |-> r.st, ret |-> r.ret, n |-> r.n]

\* add_package_release from the line after load_mod on, mod being the
\* record that load_mod returned (not None).
ReleaseAfterLoad(st, repo, mod, release_tag, dry_run, ok) ==
    IF ReleaseTagExists(mod, release_tag)
    THEN [st |-> st, ret |-> "int", n |-> 0]
    ELSE
    LET release == fetch_release_metadata(mod, release_tag, ok)
    IN  IF release = <<>>
        THEN [st |-> st, ret |-> "int", n |-> 0]
        ELSE
        LET updated_mod == update_mod_with_release(mod, release[1])
            key == LastK(github_url(repo), 2)
            v   == validate_package_db(st, <<updated_mod>>)
        IN  IF dry_run
            THEN [st |-> v.st, ret |-> "int", n |-> 1]
            ELSE [st |-> [v.st EXCEPT !.packages =
                             [e \in DOMAIN v.st.packages \cup {key} |->
                                 IF e = key THEN encode(updated_mod)
                                 ELSE v.st.packages[e]]],
                  ret |-> "int", n |-> 1]

\* Two processes are started on a package db that lists repo and holds its
\* record with the releases stored; tags[p] is the tag of process p and
\* ok[p] says whether the retriever finds that release valid.
StartReleases ==
    /\ call = NoCall
    /\ \E repo \in Repos, dry_run \in BOOLEAN, ok \in [1..2 -> BOOLEAN] :
       \E stored \in SUBSET UpstreamTags(repo) \ {{}} :
       \E tags \in [1..2 -> 1..(MaxTag + 1)] :
           /\ tags[1] # tags[2]
           /\ call' = [fn |-> "add_package_release", state |-> "running",
                       repo |-> repo, dry_run |-> dry_run, tags |-> tags,
                       ok |-> ok,
                       idx |-> {Entry(repo)},
                       st |-> WriteMods(Store, topDecl, redirectSrc,
                                  <<fetch_repo_metadata(repo, stored)>>, 1),
                       pc |-> [p \in 1..2 |-> "start"],
                       mod |-> [p \in 1..2 |-> <<>>],
                       n |-> [p \in 1..2 |-> 0],
                       log |-> <<>>]
    /\ UNCHANGED registryVars

\* Process p checks the index and loads the record.
LoadRecord(p) ==
    /\ call.fn = "add_package_release"
    /\ call.pc[p] = "start"
    /\ _is_package_in_index(call.idx, call.repo)
    /\ call' = [call EXCEPT !.pc[p] = "loaded",
                            !.mod[p] = load_mod(call.st, call.repo),
                            !.log = Append(@, [step |-> "load", p |-> p])]
    /\ UNCHANGED registryVars

\* Process p runs the rest of the call on the record it loaded, writes
\* the record file and returns.
WriteRecord(p) ==
    /\ call.fn = "add_package_release"
    /\ call.pc[p] = "loaded"
    /\ call.mod[p] # <<>>
    /\ \E r \in {ReleaseAfterLoad(call.st, call.repo, call.mod[p][1],
                                  call.tags[p], call.dry_run, call.ok[p])} :
           call' = [call EXCEPT !.pc[p] = "returned",
                                !.st = r.st,
                                !.n[p] = r.n,
                                !.state = IF call.pc[3 - p] = "returned"
                                          THEN "returned" ELSE "running",
                                !.log = Append(@, [step |-> "write", p |-> p])]
    /\ UNCHANGED registryVars

ConcurrentNext ==
    \/ StartReleases
    \/ \E p \in 1..2 : LoadRecord(p)
    \/ \E p \in 1..2 : WriteRecord(p)

ConcurrentSpec == FunctionInit /\ [][ConcurrentNext]_vars

-----------------------------------------------------------------------------
(* Properties.  last' describes the operation a step has just run; the     *)
(* unprimed variables are the files before it, the primed ones after it.   *)

IsUpdateRun(rec)  == rec.op = "process_registry_updates"
IsAdd(rec)        == rec.op = "add_package"
IsAddRelease(rec) == rec.op = "add_package_release"
IsRemove(rec)     == rec.op = "remove_mods"
IsValidate(rec)   == rec.op = "validate_package_db"

Tags(mod) == {mod.releases[i].tag : i \in 1..Len(mod.releases)}

CallOf(fn, dry_run) == [fn |-> fn, dry_run |-> dry_run]

\* C1: a non-trial process_registry_updates run in which the retriever
\* reports a new entry as absent (add_package returns 0), or in which
\* add_package or remove_mods raises, returns False and leaves
\* mod_list_index.txt as it was.
C1_FailedRunKeepsIndex ==
    [][(/\ IsUpdateRun(last')
        /\ ~last'.dry_run
        /\ (last'.fetchNone \/ last'.raised # {}))
       => (last'.ret = "False" /\ index' = index)]_vars

\* C2: a non-trial process_registry_updates run in which every ingestion and
\* every removal succeeds returns True, leaves the index equal to the
\* discovered set D, with a record for every entry of D \ P and none for
\* any entry of P \ D (P the index before the run).
C2_SuccessfulRunReconciles ==
    [][(/\ IsUpdateRun(last')
        /\ ~last'.dry_run
        /\ ~last'.fetchNone
        /\ last'.raised = {})
       => LET D == _generate_package_list(topDecl)
              P == index
          IN  /\ last'.ret = "True"
              /\ index' = D
              /\ \A e \in D \ P : e \in DOMAIN packages'
              /\ \A e \in P \ D : e \notin DOMAIN packages']_vars

\* A successful real run that both added and removed an entry.
C2_Witness ==
    /\ IsUpdateRun(last)
    /\ ~last.dry_run
    /\ ~last.fetchNone
    /\ last.ret = "True"
    /\ last.sub = {CallOf("add_package", FALSE), CallOf("remove_mods", FALSE)}
    /\ index = _generate_package_list(topDecl)
    /\ index \subseteq DOMAIN packages

\* C3: every entry of the index has a record in the package store.
C3_IndexedEntriesHaveRecords ==
    \A e \in index : e \in DOMAIN packages

\* C4: process_registry_updates(dry_run=True) leaves the index file, the
\* redirect file, every package record and the in-memory redirect table
\* unchanged, and passes dry_run=True to add_package (called when there are
\* new entries) and to remove_mods (called when there are removed entries).
C4_TrialRunChangesNothing ==
    [][(IsUpdateRun(last') /\ last'.dry_run)
       => LET D == _generate_package_list(topDecl)
          IN  /\ index' = index
              /\ redirectsFile' = redirectsFile
              /\ redirect_manager' = redirect_manager
              /\ UNCHANGED storeVars
              /\ \A c \in last'.sub : c.dry_run
              /\ (D \ index # {}) => CallOf("add_package", TRUE) \in last'.sub
              /\ (index \ D # {}) => CallOf("remove_mods", TRUE) \in last'.sub]_vars

\* A trial run with entries to add, entries to remove and redirects to write.
C4_Witness ==
    /\ IsUpdateRun(last)
    /\ last.dry_run
    /\ last.sub = {CallOf("add_package", TRUE), CallOf("remove_mods", TRUE)}
    /\ ~last.fetchNone
    /\ redirectSrc # redirectsFile
    /\ redirect_manager # parse_redirects(redirectSrc)
    /\ index # {}
    /\ index # _generate_package_list(topDecl)

\* C5: add_package, add_package_release (also when it falls back to
\* add_package) and remove_mods with dry_run=True change no package record,
\* no organization directory, no declaration file and no index entry.
C5_TrialOperationsChangeNothing ==
    [][((IsAdd(last') \/ IsAddRelease(last') \/ IsRemove(last')) /\ last'.dry_run)
       => UNCHANGED <<packages, orgDirs, repoDecl, registryOrgDirs,
                      topDecl, index>>]_vars

\* A trial add_package_release that fell back to add_package, which fetched
\* the repository and reported one repository to initialize.
C5_Witness ==
    /\ IsAddRelease(last)
    /\ last.dry_run
    /\ last.sub = {CallOf("add_package", TRUE)}
    /\ last.ret = "int"
    /\ last.n = 1
    /\ Entry(last.repos[1]) \in index
    /\ Entry(last.repos[1]) \notin DOMAIN packages

\* C6: after a successful non-trial add_package([R]) (return value 1), R is
\* in the package index, so a following add_package_release(R, t) passes
\* the "in the package list" check.
C6_AddedPackageIsIndexed ==
    (IsAdd(last) /\ ~last.dry_run /\ last.ret = "int" /\ last.n = 1)
        => _is_package_in_index(index, last.repos[1])

\* C7: add_package_release on a repository that is not in the index raises
\* ValueError before load_mod or the retriever is called, and leaves the
\* package store, the index and the declaration files unchanged, in trial
\* and non-trial mode alike.
C7_UnindexedReleaseIsRejected ==
    [][(IsAddRelease(last') /\ Entry(last'.repos[1]) \notin index)
       => /\ last'.ret = "ValueError"
          /\ last'.calls = {}
          /\ last'.sub = {}
          /\ UNCHANGED <<packages, orgDirs, repoDecl, registryOrgDirs,
                         topDecl, index>>]_vars

\* A non-trial add_package_release rejected although the repository has a
\* record (written by add_package) and the tag is new.
C7_Witness ==
    /\ IsAddRelease(last)
    /\ ~last.dry_run
    /\ last.ret = "ValueError"
    /\ Entry(last.repos[1]) \notin index
    /\ Entry(last.repos[1]) \in DOMAIN packages
    /\ last.tag \notin Tags(packages[Entry(last.repos[1])])

\* C8: add_package_release(R, t) for an indexed R whose record already has
\* a release tagged t returns 0, calls neither fetch_release_metadata nor
\* update_mod_with_release, and leaves the record unchanged.
C8_DuplicateTagIsNoOp ==
    [][(/\ IsAddRelease(last')
        /\ Entry(last'.repos[1]) \in index
        /\ Entry(last'.repos[1]) \in DOMAIN packages
        /\ last'.tag \in Tags(packages[Entry(last'.repos[1])]))
       => /\ last'.ret = "int"
          /\ last'.n = 0
          /\ "fetch_release_metadata" \notin last'.calls
          /\ "update_mod_with_release" \notin last'.calls
          /\ packages' = packages]_vars

\* A non-trial add_package_release of a tag the record already holds, on a
\* record of several releases.
C8_Witness ==
    /\ IsAddRelease(last)
    /\ ~last.dry_run
    /\ last.ret = "int"
    /\ last.n = 0
    /\ last.calls = {"load_mod"}
    /\ Entry(last.repos[1]) \in index
    /\ Entry(last.repos[1]) \in DOMAIN packages
    /\ last.tag \in Tags(packages[Entry(last.repos[1])])
    /\ Len(packages[Entry(last.repos[1])].releases) > 1

\* A Mod's releases are ordered newest-first and its latest_manifest is the
\* manifest of the first release.
NewestFirst(mod) ==
    /\ Len(mod.releases) > 0
    /\ \A i \in 1..(Len(mod.releases) - 1) :
           mod.releases[i].release_date >= mod.releases[i + 1].release_date
    /\ mod.latest_manifest = mod.releases[1].manifest

\* C9: every stored record has its releases newest-first by release_date
\* and latest_manifest equal to the manifest of its first release; and an
\* add_package_release that called update_mod_with_release and wrote the
\* result leaves a record whose releases are exactly the old ones plus the
\* release of the new tag.
C9_ReleasesNewestFirst ==
    /\ [](\A e \in DOMAIN packages : NewestFirst(from_dict(packages[e])))
    /\ [][(/\ IsAddRelease(last')
           /\ ~last'.dry_run
           /\ "update_mod_with_release" \in last'.calls
           /\ last'.ret = "int")
          => LET e       == Entry(last'.repos[1])
                 old     == from_dict(packages[e]).releases
                 new     == from_dict(packages'[e]).releases
                 release == process_release(last'.repos[1], last'.tag)
             IN  /\ Len(new) = Len(old) + 1
                 /\ SeqToSet(new) = SeqToSet(old) \cup {release}
                 /\ release \notin SeqToSet(old)]_vars

\* add_package_release put a newer release in front of an older one.
C9_Witness ==
    /\ IsAddRelease(last)
    /\ ~last.dry_run
    /\ last.ret = "int"
    /\ last.n = 1
    /\ "update_mod_with_release" \in last.calls
    /\ Len(packages[Entry(last.repos[1])].releases) > 1
    /\ packages[Entry(last.repos[1])].releases[1].tag = last.tag

\* C10: across non-trial add_package and add_package_release operations, the
\* set of release tags of a repository's stored record never loses a tag.
C10_RecordsAreAppendOnly ==
    [][((IsAdd(last') \/ IsAddRelease(last')) /\ ~last'.dry_run)
       => \A e \in DOMAIN packages \cap DOMAIN packages' :
              Tags(packages[e]) \subseteq Tags(packages'[e])]_vars

\* The entries of a list of repositories.
EntriesOf(repos) == {Entry(repos[i]) : i \in 1..Len(repos)}

\* C11: a non-trial remove_mods(L) that returns deletes the record of every
\* repository of L and no other record, leaves the other records as they
\* were, keeps an organization directory exactly when a record is left in
\* it, and returns the number of records deleted (a repository without a
\* record counts for nothing and is no error).
C11_RemoveModsDeletesRecords ==
    [][(IsRemove(last') /\ ~last'.dry_run /\ last'.ret = "int")
       => LET L == EntriesOf(last'.repos)
          IN  /\ DOMAIN packages' = DOMAIN packages \ L
              /\ \A e \in DOMAIN packages' : packages'[e] = packages[e]
              /\ orgDirs' = {e[1] : e \in DOMAIN packages'}
              /\ last'.n = Cardinality(L \cap DOMAIN packages)]_vars

\* remove_mods([a/y, b/z]) where a/y had a record and b/z had none, and a/x
\* keeps its record and the directory of organization a.
C11_Witness ==
    /\ IsRemove(last)
    /\ ~last.dry_run
    /\ last.repos = <<RepoAY, RepoBZ>>
    /\ last.ret = "int"
    /\ last.n = 1
    /\ DOMAIN packages = {Entry(RepoAX)}
    /\ orgDirs = {"a"}

\* The mods of the indexed packages that are not in the set L.
RemainingMods(L) ==
    LET left == SomeOrder(index \ L)
    IN  [i \in 1..Len(left) |-> from_dict(packages[left[i]])]

\* C12: the validation of a remove_mods(L) call covers the mods that remain
\* after the removal: a dependency of a remaining mod that no release of a
\* remaining mod satisfies is in the report of that call.
C12_RemovalValidatesRemainder ==
    [][(/\ IsRemove(last')
        /\ last'.ret = "int"
        /\ last'.report.outcome \in {"valid", "invalid"})
       => MissingDeps(redirect_manager, RemainingMods(EntriesOf(last'.repos)))
              \subseteq last'.report.missing]_vars

\* Whether the release tagged "v1.<tag>.0" lies in a dependency range.
InRange(tag, version) ==
    \A i \in 1..Len(version) :
        IF version[i].op = ">=" THEN tag >= version[i].minor
        ELSE tag < version[i].minor

\* The mods that a validate_package_db call of the last operation covered.
ValidatedMods ==
    {fetch_repo_metadata(last.repos[i], UpstreamTags(last.repos[i])) :
        i \in 1..Len(last.repos)}
    \cup {from_dict(packages[e]) : e \in index}

\* Some release of a validated mod satisfies the dependency.
Satisfied(dep) ==
    \E m \in ValidatedMods : \E j \in 1..Len(m.releases) :
        /\ resolve(redirect_manager, m.releases[j].manifest.repo_url)
               = resolve(redirect_manager, dep.repo_url)
        /\ InRange(m.releases[j].tag, dep.version)

\* The report entry of the k-th dependency of the j-th release of m.
ReportEntry(m, j, k) ==
    [name |-> m.releases[j].manifest.name, tag |-> m.releases[j].tag,
     dep |-> m.releases[j].manifest.dependencies[k]]

\* C13: the dependency check of validate_package_db reports a (release,
\* dependency) pair exactly when no release of a mod under validation (the
\* additional mods and the indexed mods) has a repo_url that resolves to
\* what the dependency's repo_url resolves to and a version in its range.
C13_MissingIffNoRelease ==
    (IsValidate(last) /\ last.report.outcome # "aborted")
        => /\ \A m \in ValidatedMods : \A j \in 1..Len(m.releases) :
              \A k \in 1..Len(m.releases[j].manifest.dependencies) :
                  ReportEntry(m, j, k) \in last.report.missing
                      <=> ~Satisfied(m.releases[j].manifest.dependencies[k])
           /\ \A x \in last.report.missing :
                  \E m \in ValidatedMods : \E j \in 1..Len(m.releases) :
                  \E k \in 1..Len(m.releases[j].manifest.dependencies) :
                      x = ReportEntry(m, j, k)
           /\ last.report.outcome = IF last.report.missing = {} THEN "valid"
                                    ELSE "invalid"

\* A validation of a/x (given as additional mod) with b/z indexed: the
\* dependency of b/z on a/x is met by the second release of a/x and not by
\* the first, and the dependency of a/x on a/y is reported missing.
C13_Witness ==
    /\ IsValidate(last)
    /\ last.repos = <<RepoAX>>
    /\ index = {Entry(RepoBZ)}
    /\ Entry(RepoBZ) \in DOMAIN packages
    /\ last.report.outcome = "invalid"
    /\ last.report.missing =
           {[name |-> "x", tag |-> 2, dep |-> Deps(RepoAX, 2)[1]]}

\* C14: missing dependencies do not block storage: a non-trial add_package
\* or add_package_release whose validation reports missing dependencies
\* still writes the records and returns its success value, and such a
\* process_registry_updates run still returns True and advances the index.
C14_FindingsDoNotBlock ==
    [][(~last'.dry_run /\ last'.report.outcome = "invalid")
       => /\ IsAdd(last')
             => /\ last'.ret = "int"
                /\ last'.n = Len(last'.repos)
                /\ EntriesOf(last'.repos) \subseteq DOMAIN packages'
                /\ from_dict(packages'[Entry(last'.repos[1])]) # None
          /\ IsAddRelease(last')
             => /\ last'.ret = "int"
                /\ last'.n = 1
                /\ Entry(last'.repos[1]) \in DOMAIN packages'
                /\ "update_mod_with_release" \in last'.calls
                   => last'.tag \in Tags(packages'[Entry(last'.repos[1])])
          /\ (IsUpdateRun(last') /\ last'.raised = {})
             => /\ last'.ret = "True"
                /\ index' = _generate_package_list(topDecl)
                /\ index' \ index \subseteq DOMAIN packages']_vars

\* add_package stored b/z although its dependency on a/x was reported missing.
C14_Witness ==
    /\ IsAdd(last)
    /\ ~last.dry_run
    /\ last.report.outcome = "invalid"
    /\ last.report.missing # {}
    /\ last.ret = "int"
    /\ last.n = 1
    /\ Entry(last.repos[1]) \in DOMAIN packages

\* C15: validate_package_db leaves the index, every package record, the
\* redirect file and the active redirect table unchanged, whatever it is
\* given and whatever it finds.
C15_ValidateChangesNothing ==
    [][IsValidate(last')
       => UNCHANGED <<index, packages, orgDirs, redirectsFile,
                      redirect_manager>>]_vars

\* A validation, given an additional mod, of a registry whose index names
\* a package without a record.
C15_Witness ==
    /\ IsValidate(last)
    /\ Len(last.repos) = 1
    /\ \E e \in index : e \notin DOMAIN packages
    /\ DOMAIN packages # {}
    /\ last.report.outcome = "aborted"

\* The url reached from u after at most n redirects of table t.
RECURSIVE Walk(_, _, _)
Walk(t, u, n) ==
    IF n = 0 \/ u \notin DOMAIN t THEN u ELSE Walk(t, t[u], n - 1)

\* The chain of redirects from u runs into a cycle: it is still at a
\* source after as many redirects as the table has sources.
EntersCycle(t, u) == Walk(t, u, Cardinality(DOMAIN t)) \in DOMAIN t

Acyclic(t) == \A u \in DOMAIN t : ~EntersCycle(t, u)

\* C16: on a redirect table without a cycle, resolve(url) is the end of the
\* chain from url: it is no redirect source (so resolving it again gives
\* it back), a url and its redirect resolve to the same url, and a url
\* that is no source resolves to itself.
C16_ResolveIsEndOfChain ==
    (call.fn = "resolve" /\ Acyclic(call.redirects))
        => /\ \A u \in RedirectUrls :
              LET r == resolve(call.redirects, u)
              IN  /\ r = Walk(call.redirects, u, Cardinality(DOMAIN call.redirects))
                  /\ r \notin DOMAIN call.redirects
                  /\ resolve(call.redirects, r) = r
                  /\ u \notin DOMAIN call.redirects => r = u
                  /\ u \in DOMAIN call.redirects
                        => r = resolve(call.redirects, call.redirects[u])
           /\ call.state = "returned"
                 => call.result = resolve(call.redirects, call.start)

\* resolve(A) returned C on the chain A -> B -> C.
C16_Witness ==
    /\ call.fn = "resolve"
    /\ call.state = "returned"
    /\ call.start \in DOMAIN call.redirects
    /\ call.redirects[call.start] # call.start
    /\ DOMAIN call.redirects = {call.start, call.redirects[call.start]}
    /\ call.result \notin DOMAIN call.redirects
    /\ call.result = call.redirects[call.redirects[call.start]]

\* C17: resolve(url) returns when the chain from url runs into no cycle
\* (so for every url of a table without a cycle); when the chain runs into
\* a cycle (A -> B with B -> A, or A -> A) every frame calls a further
\* frame and the call returns no value.
C17_ResolveReturnsIffNoCycle ==
    /\ [](call.fn = "resolve" /\ ~EntersCycle(call.redirects, call.start)
             => <>(call.state = "returned"))
    /\ [](call.fn = "resolve" /\ EntersCycle(call.redirects, call.start)
             => call.state # "returned")

\* resolve(C) on C -> A, A -> B, B -> A went round the cycle until the stack
\* was full.
C17_Witness ==
    /\ call.fn = "resolve"
    /\ call.state = "raised"
    /\ DOMAIN call.redirects = RedirectUrls
    /\ EntersCycle(call.redirects, call.start)
    /\ Walk(call.redirects, call.start, Cardinality(RedirectUrls)) # call.start

\* The text of a line before its first " -> " and the text after it.
TextBefore(line) == Slice(line, 1, find(line, Separator) - 1)

TextAfter(line) ==
    Slice(line, find(line, Separator) + Len(Separator), Len(line))

HasSeparator(line) == find(line, Separator) # 0

\* C18 as stated: the table of parse_redirects has a source for exactly the
\* lines that contain " -> ", the source is the text before the separator and
\* its destination the text after it; a missing file gives the empty table.
C18_SeparatorLinesGiveEntries ==
    /\ call.fn = "parse_redirects"
          => LET lines == call.redirect_lines
                 with  == {i \in 1..Len(lines) : HasSeparator(lines[i])}
             IN  /\ DOMAIN call.result = {TextBefore(lines[i]) : i \in with}
                 /\ \A s \in DOMAIN call.result :
                       \E i \in with : /\ TextBefore(lines[i]) = s
                                       /\ call.result[s] = TextAfter(lines[i])
    /\ (call.fn = "from_file" /\ ~call.file.exists)
          => DOMAIN call.result = {}

\* t is line without the blanks at its ends.
IsStripped(t, line) ==
    /\ t = <<>> \/ (Head(t) # " " /\ t[Len(t)] # " ")
    /\ \E i \in 1..(Len(line) - Len(t) + 1) :
          /\ t = Slice(line, i, i + Len(t) - 1)
          /\ \A k \in 1..Len(line) :
                (k < i \/ k >= i + Len(t)) => line[k] = " "

Stripped(line) ==
    CHOOSE t \in {Slice(line, i, j) : i \in 1..(Len(line) + 1), j \in 0..Len(line)} :
        IsStripped(t, line)

\* The text up to the next " -> ", the whole text when there is none.
UpToSeparator(text) ==
    IF HasSeparator(text) THEN TextBefore(text) ELSE text

\* C18, amended: the table of parse_redirects has a source for exactly the
\* lines that contain " -> " once the blanks at their ends are dropped; the
\* source is the text of the stripped line before its first separator, the
\* destination the text between the first separator and the second (the
\* rest of the line when there is no second), and the last line of a source
\* gives its destination.  Blank lines and lines without the separator add
\* no entry, every call returns, and a missing file gives the empty table.
C18_StrippedSeparatorLinesGiveEntries ==
    /\ call.fn = "parse_redirects"
          => LET lines   == [i \in 1..Len(call.redirect_lines)
                                |-> Stripped(call.redirect_lines[i])]
                 with    == {i \in 1..Len(lines) : HasSeparator(lines[i])}
                 last_(s) == CHOOSE i \in with :
                                /\ TextBefore(lines[i]) = s
                                /\ \A j \in with :
                                      TextBefore(lines[j]) = s => j <= i
             IN  /\ call.state = "returned"
                 /\ DOMAIN call.result = {TextBefore(lines[i]) : i \in with}
                 /\ \A s \in DOMAIN call.result :
                       call.result[s] = UpToSeparator(TextAfter(lines[last_(s)]))
    /\ call.fn = "from_file"
          => /\ call.state = "returned"
             /\ ~call.file.exists => DOMAIN call.result = {}

\* parse_redirects(["A -> B", "A -> C -> B", "A -> "]) returned {A: C}.
C18_Witness ==
    /\ call.fn = "parse_redirects"
    /\ call.state = "returned"
    /\ call.redirect_lines = << <<"A">> \o Separator \o <<"B">>,
                                <<"A">> \o Separator \o <<"C">> \o Separator \o <<"B">>,
                                <<"A">> \o Separator >>
    /\ DOMAIN call.result = {<<"A">>}
    /\ call.result[<<"A">>] = <<"C">>

\* The places of the assets of a release whose name ends in ".pak".
PakPlaces(release) ==
    {i \in 1..Len(release.assets) :
        /\ release.assets[i] # <<>>
        /\ release.assets[i][Len(release.assets[i])] = ".pak"}

\* The rules of process_release that a release violates.
ViolatedRules(release) ==
    {rule \in {"pak", "tags", "mod_type", "dependency", "tag_name"} :
        \/ rule = "pak" /\ Cardinality(PakPlaces(release)) # 1
        \/ rule = "tags" /\ \E i \in 1..Len(release.tags) :
                               release.tags[i] \notin VALID_TAGS
        \/ rule = "mod_type" /\ release.mod_type \notin VALID_MOD_TYPES
        \/ rule = "dependency" /\ \E i \in 1..Len(release.dependencies) :
                                     ~RangeParses(release.dependencies[i].version)
        \/ rule = "tag_name" /\ ~IsSemver(release.tag_name.version)}

\* The rules that the entries of a raised error name.
ReportedRules(errors) == {errors[i].rule : i \in 1..Len(errors)}

C20_OnePakOrError ==
    /\ call.fn = "find_pak_file"
          => /\ call.result.kind = "asset"
                   <=> Cardinality(PakPlaces(call.release)) = 1
             /\ call.result.kind = "asset"
                   => \A i \in PakPlaces(call.release) :
                         call.result.asset = call.release.assets[i]
             /\ call.result.kind # "asset"
                   => /\ call.result.kind = "str"
                      /\ call.result.tag_name = call.release.tag_name
    /\ (call.fn = "process_release" /\ Cardinality(PakPlaces(call.release)) # 1)
          => /\ call.state = "raised"
             /\ call.result.release = <<>>

\* find_pak_file returned an error string on a release with two .pak assets
\* and a third asset between them.
C20_Witness ==
    /\ call.fn = "find_pak_file"
    /\ call.state = "returned"
    /\ Cardinality(PakPlaces(call.release)) = 2
    /\ Len(call.release.assets) > 2
    /\ call.result.kind = "str"
    /\ call.result.tag_name = call.release.tag_name

\* C21: one leading "v" makes no difference: validate_version_tag_name
\* accepts "v" + t exactly when it accepts t, and the version test of
\* _find_dependency has the same outcome for a release tag t and "v" + t
\* and for a dependency range r and "v" + r.
C21_LeadingVInsignificant ==
    /\ call.fn = "validate_version_tag_name"
          => ((call.result = <<>>) <=> (call.result_v = <<>>))
    /\ call.fn = "_find_dependency"
          => /\ call.result_vt = call.result
             /\ call.result_vr = call.result
             /\ call.result_vv = call.result
             /\ call.result
                   <=> \A i \in 1..Len(call.dep_version.clauses) :
                          LET c == call.dep_version.clauses[i]
                          IN  IF c.op = ">="
                              THEN call.release_tag.version[2] >= c.version[2]
                              ELSE call.release_tag.version[2] < c.version[2]

\* "v1.1.0" matched "v>=1.1.0,<1.2.0", as "1.1.0" matched ">=1.1.0,<1.2.0".
C21_Witness ==
    /\ call.fn = "_find_dependency"
    /\ call.state = "returned"
    /\ Len(call.dep_version.clauses) = 2
    /\ call.result
    /\ call.result_vv

C23_FailedFetchWritesNothing ==
    (/\ call.fn = "add_package_batch"
     /\ \E i \in 1..Len(call.repos) : call.valid[i] = {})
        => /\ call.ret = "int"
           /\ call.n = 0
           /\ call.st = call.before
           /\ \A i \in 1..Len(call.repos) :
                 /\ Entry(call.repos[i]) \notin DOMAIN call.st.packages
                 /\ Entry(call.repos[i]) \notin DOMAIN call.st.repoDecl

\* A non-trial add_package([a/x, a/y]) fetched a Mod for a/x and none for
\* a/y and returned 0.
C23_Witness ==
    /\ call.fn = "add_package_batch"
    /\ call.state = "returned"
    /\ ~call.dry_run
    /\ call.repos = <<RepoAX, RepoAY>>
    /\ call.valid[1] # {}
    /\ call.valid[2] = {}
    /\ call.n = 0
    /\ DOMAIN call.st.packages = {Entry(RepoBZ)}

\* The lines of the files that stand directly in the directory.
TopLevelLines ==
    IF call.directory = <<>> THEN {}
    ELSE UNION {SeqToSet(call.directory[1][i].lines) :
                   i \in {j \in 1..Len(call.directory[1]) :
                              call.directory[1][j].isfile}}

\* The lines of the files that stand in a subdirectory of the directory.
SubdirectoryLines ==
    IF call.directory = <<>> THEN {}
    ELSE UNION {UNION {SeqToSet(call.directory[1][i].files[k]) :
                          k \in 1..Len(call.directory[1][i].files)} :
                   i \in {j \in 1..Len(call.directory[1]) :
                              ~call.directory[1][j].isfile}}

C28_SpellingsGiveOneEntry ==
    call.fn = "repo_to_index_entry" =>
        /\ call.form \in {"url", "entry", "slash", "padded"} =>
               call.ret = EntryText(call.repo)
        /\ call.again = call.ret
        /\ call.ret = RepoToIndexEntry(EntryText(call.repo))

\* C29: the manifest of a Release that process_release returns for a
\* repository has the repo_url that github_url gives for the repository,
\* whether the uploaded mod.json named that URL, another one or none.
C29_RepoUrlIsStamped ==
    (call.fn = "process_release" /\ call.result.ret = "Release") =>
        call.result.release[1].manifest.repo_url = github_url(call.repo)

\* A Release returned for a mod.json that names another repository.
C29_Witness ==
    /\ call.fn = "process_release"
    /\ call.result.ret = "Release"
    /\ call.release.repo_url = <<github_url(RepoAY)>>
    /\ call.repo = RepoAX
    /\ call.result.release[1].manifest.repo_url = github_url(RepoAX)

\* A line of a declaration file names the repository: it is no comment and
\* repo_to_index_entry gives the entry of the repository for it.
NamesRepo(line, repo) ==
    ~StartsWithHash(line) /\ repo_to_index_entry(line) = Entry(repo)

\* The lines of the declaration files of a registry directory: those of
\* its top-level files and those of its <org>/<name>.txt files.
DeclaredLines(st) == call.top \cup {st.repoDecl[e] : e \in DOMAIN st.repoDecl}

\* C31: a non-trial add_package of R that returns 1 writes
\* <registry>/<org>/<name>.txt with the URL of R exactly when no line of a
\* declaration file named R before; afterwards some line of a declaration
\* file names R, and a declaration file that existed holds what it held.
C31_DeclaredExactlyWhenMissing ==
    (call.fn = "add_package_declare" /\ ~call.dry_run /\ call.n = 1) =>
        LET R == call.repo
            named == \E l \in DeclaredLines(call.before) : NamesRepo(l, R)
            wrote == call.st.repoDecl # call.before.repoDecl
        IN  /\ wrote <=> ~named
            /\ wrote => call.st.repoDecl[Entry(R)] = github_url(R)
            /\ \E l \in DeclaredLines(call.st) : NamesRepo(l, R)
            /\ \A e \in DOMAIN call.before.repoDecl :
                   call.st.repoDecl[e] = call.before.repoDecl[e]

\* C32: add_package_release on a repository that is in the index and has
\* no record calls add_package([repo], dry_run) with its own dry_run flag,
\* returns what that call returns (or raises what it raises), leaves the
\* package db as that call leaves it, and does not call
\* fetch_release_metadata.
C32_MissingRecordIsInitialized ==
    (/\ call.fn = "add_package_release_call"
     /\ call.idx # {}
     /\ call.stored = {})
    => /\ call.sub = {[fn |-> "add_package", dry_run |-> call.dry_run]}
       /\ call.ret = call.direct.ret
       /\ call.n = call.direct.n
       /\ call.st = call.direct.st
       /\ "fetch_release_metadata" \notin call.calls

\* A non-trial call on an indexed repository without a record that stored
\* the record through add_package and returned 1.
C32_Witness ==
    /\ call.fn = "add_package_release_call"
    /\ call.idx # {}
    /\ call.stored = {}
    /\ ~call.dry_run
    /\ call.n = 1
    /\ Entry(call.repo) \in DOMAIN call.st.packages
    /\ call.sub = {[fn |-> "add_package", dry_run |-> FALSE]}

\* add_package_release was called for a tag that the stored record of an
\* indexed repository does not hold.
CalledForNewTag ==
    /\ call.fn = "add_package_release_call"
    /\ call.idx # {}
    /\ call.stored # {}
    /\ call.release_tag \notin call.stored

\* The record of the repository before the call, and the one
\* update_mod_with_release gives for it and the release of the tag.
OldRecord == from_dict(call.before.packages[Entry(call.repo)])

UpdatedRecord ==
    update_mod_with_release(OldRecord,
                            process_release(call.repo, call.release_tag))

\* The retriever gave no release: 0 is returned, update_mod_with_release
\* is not called and the package db is as it was.
AbsentReleaseChangesNothing ==
    (CalledForNewTag /\ ~call.ok) =>
        /\ call.ret = "int"
        /\ call.n = 0
        /\ "update_mod_with_release" \notin call.calls
        /\ call.st = call.before

\* C33 as stated: when fetch_release_metadata returns no release,
\* add_package_release returns 0, does not call update_mod_with_release and
\* leaves the record as it was; when it returns the release of a new tag
\* and nothing raises, add_package_release returns 1 and the stored record
\* is update_mod_with_release(old record, release).
C33_StoredRecordIsUpdatedRecord ==
    /\ AbsentReleaseChangesNothing
    /\ (CalledForNewTag /\ call.ok /\ call.exc = 0) =>
           /\ call.n = 1
           /\ from_dict(call.st.packages[Entry(call.repo)]) = UpdatedRecord

\* C33, amended: as above, the stored record being the updated one after a
\* non-trial call and the old one after a trial call.
C33_StoredRecordIsUpdatedUnlessTrial ==
    /\ AbsentReleaseChangesNothing
    /\ (CalledForNewTag /\ call.ok /\ call.exc = 0) =>
           /\ call.n = 1
           /\ from_dict(call.st.packages[Entry(call.repo)]) =
                  IF call.dry_run THEN OldRecord ELSE UpdatedRecord

\* A non-trial call stored an older release under the newer one it held.
C33_Witness ==
    /\ CalledForNewTag
    /\ call.ok
    /\ ~call.dry_run
    /\ call.n = 1
    /\ call.release_tag = 1
    /\ Len(from_dict(call.st.packages[Entry(call.repo)]).releases) = 2
    /\ from_dict(call.st.packages[Entry(call.repo)]) = UpdatedRecord
    /\ UpdatedRecord # OldRecord

\* The places of the listed releases that pass ingestion validation: the
\* mod.json is found and no rule of process_release is violated.
PassingPlaces ==
    {i \in 1..Len(call.git_releases) :
        /\ call.git_releases[i].status_code = 200
        /\ ViolatedRules(call.git_releases[i]) = {}}

PassingTags == {call.git_releases[i].tag_name.version[2] : i \in PassingPlaces}

\* C34: fetch_repo_metadata returns a Mod whose releases are exactly the
\* upstream releases that pass ingestion validation, an invalid release
\* being skipped without failing the others; it returns None exactly when
\* the lookup fails or no release passes; and the record that add_package
\* stores from it holds no release that failed validation.
C34_ReturnsExactlyThePassingReleases ==
    call.fn = "fetch_repo_metadata" =>
        /\ call.ret = None <=> (~call.lookup_ok \/ PassingPlaces = {})
        /\ call.ret # None =>
               /\ Len(call.ret.releases) = Cardinality(PassingPlaces)
               /\ {call.ret.releases[i].tag : i \in 1..Len(call.ret.releases)} = PassingTags
               /\ call.ret.latest_manifest = call.ret.releases[1].manifest
               /\ \A i \in 1..Len(call.ret.releases) - 1 :
                      call.ret.releases[i].release_date >= call.ret.releases[i + 1].release_date
        /\ \A mod \in {from_dict(call.st.packages[e]) : e \in DOMAIN call.st.packages} :
               {mod.releases[i].tag : i \in 1..Len(mod.releases)} \subseteq PassingTags

\* A Mod is returned and stored from a listing in which the older release
\* passes and the newer one fails validation.
C34_Witness ==
    /\ call.fn = "fetch_repo_metadata"
    /\ Len(call.git_releases) = 2
    /\ PassingPlaces = {1}
    /\ call.ret # None
    /\ Len(call.ret.releases) = 1
    /\ call.n = 1
    /\ Entry(call.repo) \in DOMAIN call.st.packages

\* The mods that the validation of the add phase looks at: those fetched
\* for the new entries and the stored records of the indexed entries.
AddPhaseMods ==
    LET n == SomeOrder(call.new)
        i == SomeOrder(call.idx)
    IN  [k \in 1..Len(n) |-> fetch_repo_metadata(EntryToRepo(n[k]), call.valid[n[k]])]
        \o [k \in 1..Len(i) |-> from_dict(call.before.packages[i[k]])]

\* The dependency of a/x v1.2.0 on the old URL of a/y is reported missing.
OldUrlDependencyMissing ==
    \E m \in call.result.report.missing :
        m.name = RepoAX.name /\ m.tag = 2 /\ m.dep.repo_url = OldUrlAY

\* a/x is added with its second release while a/y, stored with v1.1.0, is
\* indexed, and this run's sources redirect the old URL of a/y.
AddsDependentOfRedirected ==
    /\ call.fn = "process_registry_updates"
    /\ call.result.report.outcome \in {"valid", "invalid"}
    /\ Entry(RepoAX) \in call.new
    /\ 2 \in call.valid[Entry(RepoAX)]
    /\ Entry(RepoAY) \in call.idx

\* C35: the dependency validation of the add phase resolves through the
\* table parsed from this run's redirect sources in a non-trial run, and
\* through the table that was active before the run in a trial run: a
\* dependency on an old URL is met by a release at the new URL exactly when
\* that table redirects the old URL.
C35_ValidationResolvesThroughRefreshedTable ==
    /\ (call.fn = "process_registry_updates"
          /\ call.result.report.outcome \in {"valid", "invalid"}) =>
           call.result.report.missing =
               MissingDeps(IF call.dry_run THEN call.before.redirect_manager
                           ELSE parse_redirects(call.redir),
                           AddPhaseMods)
    /\ AddsDependentOfRedirected =>
           (OldUrlDependencyMissing <=>
               IF call.dry_run THEN call.file = <<>> ELSE call.redir = <<>>)

\* A non-trial run whose sources introduce the redirect finds the
\* dependency met although the table before the run was empty.
C35_Witness ==
    /\ AddsDependentOfRedirected
    /\ ~call.dry_run
    /\ call.file = <<>>
    /\ call.redir # <<>>
    /\ ~OldUrlDependencyMissing
    /\ call.result.ret = "True"

\* A trial run with the same sources reports the dependency missing.
C35_TrialWitness ==
    /\ AddsDependentOfRedirected
    /\ call.dry_run
    /\ call.file = <<>>
    /\ call.redir # <<>>
    /\ OldUrlDependencyMissing

\* What C36 asks of every run: a phase that raises makes the run return
\* False and nothing else does so, and the remove phase is entered whenever
\* there are removed entries, whatever the add phase did.
ExceptionsAreCaught ==
    /\ call.result.ret \in {"True", "False"}
    /\ call.result.ret = "False" <=> call.result.raised # {}
    /\ (call.exc_add = 1 /\ call.new # {}) => "add_package" \in call.result.raised
    /\ (call.exc_remove = 1 /\ call.removed # {}) => "remove_mods" \in call.result.raised
    /\ call.removed # {} =>
           [fn |-> "remove_mods", dry_run |-> call.dry_run] \in call.result.sub

RemovedRecordsDeleted ==
    \A e \in call.removed : e \notin DOMAIN call.result.st.packages

\* C36 as stated: the exceptions of the two phases are caught and make the
\* run return False, and when only the add phase raised the records of the
\* removed entries are deleted.
C36_FailedAddStillRemoves ==
    call.fn = "process_registry_updates" =>
        /\ ExceptionsAreCaught
        /\ call.result.raised = {"add_package"} => RemovedRecordsDeleted

\* C36, amended: the records of the removed entries are deleted in a
\* non-trial run; a trial run leaves every record where it was.
C36_FailedAddStillRemovesUnlessTrial ==
    call.fn = "process_registry_updates" =>
        /\ ExceptionsAreCaught
        /\ call.result.raised = {"add_package"} =>
               IF call.dry_run
               THEN call.result.st.packages = call.before.packages
               ELSE RemovedRecordsDeleted

\* add_package raised in a non-trial run that had a stored entry to remove.
C36_Witness ==
    /\ call.fn = "process_registry_updates"
    /\ ~call.dry_run
    /\ call.result.raised = {"add_package"}
    /\ call.result.ret = "False"
    /\ \E e \in call.removed : e \in DOMAIN call.before.packages
    /\ RemovedRecordsDeleted

\* The entries that are in the previous index and in the discovered set.
KeptEntries == call.idx \cap _generate_package_list(call.top)

\* The run with the same inputs but a retriever that knows no release of
\* the entries of S.
RunWithoutAnswersFor(S) ==
    process_registry_updates(call.idx, call.before, call.top, call.redir,
        call.file, parse_redirects(call.file), call.dry_run,
        [e \in DOMAIN call.valid |-> IF e \in S THEN {} ELSE call.valid[e]],
        SomeOrder(call.new), SomeOrder(call.removed),
        call.exc_add, call.exc_remove)

\* C37: an entry that is in both the previous index and the discovered set
\* is left alone by process_registry_updates, whether the run returns True
\* or False: its stored record is what it was, and the retriever is not
\* asked about it (nothing of the run depends on its answer for the entry).
C37_KeptEntriesAreUntouched ==
    call.fn = "process_registry_updates" =>
        /\ \A e \in KeptEntries :
              /\ e \in DOMAIN call.result.st.packages <=> e \in DOMAIN call.before.packages
              /\ e \in DOMAIN call.before.packages =>
                     call.result.st.packages[e] = call.before.packages[e]
        /\ call.result = RunWithoutAnswersFor(KeptEntries)

\* A failed non-trial run that added one entry, removed another and kept a
\* third, for which the retriever would have had an answer.
C37_Witness ==
    /\ call.fn = "process_registry_updates"
    /\ ~call.dry_run
    /\ call.result.ret = "False"
    /\ call.new # {}
    /\ \E e \in call.removed : e \notin DOMAIN call.result.st.packages
    /\ \E e \in KeptEntries :
          /\ call.valid[e] # {}
          /\ e \in DOMAIN call.result.st.packages
    /\ call.result.st.packages # call.before.packages

\* C38: a trial remove_mods(L) returns the number of repositories that the
\* non-trial remove_mods(L) started from the same state removes, for every
\* list L, also one that names a repository twice.
C38_TrialCountIsRemovalCount ==
    [][(/\ last'.op = "remove_mods"
        /\ last'.dry_run
        /\ last'.ret = "int")
          => last'.n = remove_mods(Store, last'.repos, FALSE, 0).n]_vars

\* The table that from_file reads from the redirect file the run left.
PersistedTable ==
    from_file(FileOf(SplitLines(JoinLines(call.result.file))))

\* C39: after a non-trial process_registry_updates run, whether it returns
\* True or False, redirects.txt holds the redirect lines of this run and
\* the active table is the table that parsing redirects.txt gives; a
\* failed phase does not put the earlier table back.
C39_RedirectsPersistedAndActive ==
    (call.fn = "process_registry_updates" /\ ~call.dry_run) =>
        /\ call.result.file = call.redir
        /\ SplitLines(JoinLines(call.result.file)) = call.redir
        /\ call.result.manager = PersistedTable
        /\ call.result.st.redirect_manager = PersistedTable

\* A non-trial run that failed in a phase and changed the redirect table.
C39_Witness ==
    /\ call.fn = "process_registry_updates"
    /\ ~call.dry_run
    /\ call.result.ret = "False"
    /\ call.redir # <<>>
    /\ call.file = <<>>
    /\ call.result.manager # call.before.redirect_manager
    /\ call.result.manager = PersistedTable

\* The records that the removal left, in some order.
ModsLeftByRemoval ==
    LET left == SomeOrder(DOMAIN call.removed.st.packages)
    IN  [k \in 1..Len(left) |-> from_dict(call.removed.st.packages[left[k]])]

\* The mod that add_package fetched for the other repository, if any.
ModsFetchedAfterRemoval ==
    IF call.valid = {} THEN <<>>
    ELSE <<fetch_repo_metadata(call.other, call.valid)>>

\* The removal deleted the record of an indexed repository.
IndexIsStale ==
    /\ call.fn = "validate_after_remove"
    /\ call.removed.n = 1
    /\ Entry(call.repo) \in call.before.index

\* C40: after a non-trial remove_mods([R]) that deleted the record of the
\* indexed R, validate_package_db([]) and the validation of add_package
\* look at every remaining and additional mod and report every dependency
\* that none of them meets; they do not stop at the entry without record.
C40_StaleIndexStillValidated ==
    IndexIsStale =>
        /\ call.report.outcome \in {"valid", "invalid"}
        /\ call.report.missing =
               MissingDeps(call.removed.st.redirect_manager, ModsLeftByRemoval)
        /\ call.valid # {} =>
               /\ call.added.report.outcome \in {"valid", "invalid"}
               /\ call.added.report.missing =
                      MissingDeps(call.removed.st.redirect_manager,
                                  ModsFetchedAfterRemoval \o ModsLeftByRemoval)

-----------------------------------------------------------------------------
(* Two operations in a row (SequelSpec).                                   *)

\* The observed run follows a non-trial process_registry_updates run that
\* returned False.
RetriesFailedRun ==
    /\ last.prior # <<>>
    /\ last.prior[1].op = "process_registry_updates"
    /\ last.prior[1].ret = "False"

\* C24: the run that follows a failed non-trial process_registry_updates
\* run, the sources unchanged, computes the new and the removed entries the
\* failed run computed; if nothing raises in it, it returns True and the
\* index it leaves is the discovered set.
C24_FailedRunIsRetried ==
    RetriesFailedRun =>
        /\ last.new = last.prior[1].new
        /\ last.removed = last.prior[1].removed
        /\ last.raised = {} =>
               /\ last.ret = "True"
               /\ index = _generate_package_list(topDecl)

\* A failed run that had written or deleted records is retried with new
\* and removed entries to handle, and the retry succeeds.
C24_Witness ==
    /\ RetriesFailedRun
    /\ last.prior[1].changed
    /\ last.new # {}
    /\ last.removed # {}
    /\ last.raised = {}
    /\ ~last.fetchNone
    /\ last.ret = "True"
    /\ index = _generate_package_list(topDecl)

\* The observed run follows a non-trial process_registry_updates run that
\* returned True.
RepeatsSuccessfulRun ==
    /\ last.prior # <<>>
    /\ last.prior[1].op = "process_registry_updates"
    /\ last.prior[1].ret = "True"

\* C25: the step that repeats a successful non-trial
\* process_registry_updates run, the sources unchanged, finds no new and no
\* removed entry, calls neither the retriever nor add_package nor
\* remove_mods, returns True and leaves the index, the redirect file, the
\* redirect table and every package record as the first run left them.
C25_RepeatedRunChangesNothing ==
    [][(/\ last.op = "process_registry_updates"
        /\ ~last.dry_run
        /\ last.ret = "True"
        /\ last'.prior = <<last>>)
       => /\ last'.new = {}
          /\ last'.removed = {}
          /\ last'.calls = {}
          /\ last'.sub = {}
          /\ last'.ret = "True"
          /\ index' = index
          /\ redirectsFile' = redirectsFile
          /\ redirect_manager' = redirect_manager
          /\ packages' = packages
          /\ orgDirs' = orgDirs]_vars

\* A run that added and removed entries and stored records has been
\* repeated.
C25_Witness ==
    /\ RepeatsSuccessfulRun
    /\ last.prior[1].new # {}
    /\ last.prior[1].removed # {}
    /\ last.prior[1].changed
    /\ ~last.prior[1].fetchNone
    /\ redirectsFile # <<>>
    /\ last.ret = "True"
    /\ \E e \in index : e \in DOMAIN packages

-----------------------------------------------------------------------------
(* Two add_package_release processes (ConcurrentSpec).                     *)

\* Both processes have returned 1 from a non-trial call.
BothAdded ==
    /\ call.fn = "add_package_release"
    /\ call.state = "returned"
    /\ ~call.dry_run
    /\ call.n[1] = 1
    /\ call.n[2] = 1

\* both processes loaded the record before either wrote it / one process
\* returned before the other loaded.
Overlapped == call.log[1].step = "load" /\ call.log[2].step = "load"

Serialized == call.log[1].step = "load" /\ call.log[2].step = "write"

\* The tags of the stored record of the repository.
StoredTags ==
    LET mod == load_mod(call.st, call.repo)[1]
    IN  {mod.releases[i].tag : i \in 1..Len(mod.releases)}

\* C26: when both calls have returned 1, the stored record holds the
\* release of exactly one of them (of the one that wrote last) if both
\* loaded the record before either wrote it, and the releases of both if
\* one call returned before the other loaded.
C26_OverlappedLosesSerializedKeeps ==
    BothAdded =>
        /\ Overlapped =>
               /\ call.tags[call.log[4].p] \in StoredTags
               /\ call.tags[3 - call.log[4].p] \notin StoredTags
        /\ Serialized => {call.tags[1], call.tags[2]} \subseteq StoredTags

\* Both calls returned 1 after loading the same record, and the stored
\* record holds one of the two releases only.
C26_Witness ==
    /\ BothAdded
    /\ Overlapped
    /\ Cardinality({call.tags[1], call.tags[2]} \cap StoredTags) = 1

\* Both calls returned 1 one after the other, and the stored record holds
\* both releases.
C26_SerializedWitness ==
    /\ BothAdded
    /\ Serialized
    /\ {call.tags[1], call.tags[2]} \subseteq StoredTags

\* C30: when a non-trial process_registry_updates run that succeeds follows
\* a non-trial add_package([R]) that returned 1, R is in the discovered
\* set and in the index, and the record of R is in the package store.
C30_AddedRepositoryIsReconciled ==
    (/\ last.prior # <<>>
     /\ last.prior[1].op = "add_package"
     /\ last.ret = "True"
     /\ ~last.fetchNone)
    => LET R == Entry(last.prior[1].repos[1])
       IN  /\ R \in _generate_package_list(topDecl)
           /\ R \in index
           /\ R \in DOMAIN packages

====
